---- MODULE Spec2Model ----
(***************************************************************************)
(* A model of the crawl-and-enrich pipeline of the wikipedia scripts:      *)
(*   src/src/wiki/categories.py  fetch_category_members, crawl_category    *)
(*   src/src/wiki/clients.py     mw_get                                    *)
(*   src/src/wiki/pageviews.py   get_yearly_total_views                    *)
(*   src/src/wiki/mw.py          extract_quality, extract_wikiprojects,    *)
(*                               fetch_article_meta                        *)
(*   src/src/wiki/enrich.py      compute_yearly_views, fetch_metadata      *)
(*   src/bin/fetch_yearly_views_and_metadata.py, join_views_with_metadata.py *)
(*   src/bin/fetch_category_articles.py, convert_csv_to_mw_table.py        *)
(* A title is a sequence of string tokens: <<"Category:", "Sub">> is the   *)
(* title "Category:Sub" and <<"Sub">> the title "Sub", so that             *)
(* startswith("Category:") and removeprefix("Category:") are computed.     *)
(* An optional value (None or a value) is a set of at most one element.    *)
(***************************************************************************)
EXTENDS Integers, Sequences, FiniteSets, TLC

VARIABLES
    \* the wiki behind the query API: the category containment graph
    subcatsOf, pagesOf,
    \* crawl_category: arguments, locals, position
    pc, root_category, max_depth, exclude_arg, exclude, queue,
    visited_categories, articles, category_title, depth,
    \* crawl_category: what it has done so far (history)
    visit_log, call_log, enqueue_log,
    \* fetch_category_members: locals, position, requests sent and payloads got
    fm_pc, cmtitle, member_type, members, continue_token, fm_requests,
    fm_responses,
    \* mw_get / get_yearly_total_views: the function called, position, locals,
    \* the requests and sleeps so far, the outcome
    h_fn, h_pc, attempt, backoff_seconds, response, h_payload, h_log, h_result,
    \* extract_quality / extract_wikiprojects: the function called, position,
    \* argument, the value returned
    x_fn, x_pc, categories, quality, wikiprojects,
    \* fetch_article_meta: position, argument, locals, the titles requested
    \* with mw_get so far, the outcome
    m_pc, m_title, page_data, m_pageid, talk_page, m_requests, m_result,
    \* fetch_yearly_views_and_metadata / join_views_with_metadata: the script
    \* run, position, arguments and locals of main, the exit of the run
    script, a_pc, write_intermediate, article_refs, pageview_totals,
    metadata_records, metadata_by_pageid, rank, a_exit,
    \* the files: None when the path does not exist, else the rows held; the
    \* paths opened for writing so far (history)
    combined_file, views_file, meta_file, opened,
    \* the fetches called so far, each with its title and what it returned
    \* (None: it raised), and the input files read so far (history)
    fetch_log, read_log,
    \* fetch_category_articles: the --exclude option, the items between its
    \* commas
    exclude_option,
    \* convert_csv_to_mw_table --group-by-category-year: position, the rows of
    \* the input CSV, the rows of each bucket, the position in bucket_order,
    \* the lines so far, the output file (None until it is written)
    cv_pc, cv_rows, buckets, bucket_index, lines, output_file

wikiVars == <<subcatsOf, pagesOf>>
crawlVars == <<pc, root_category, max_depth, exclude_arg, exclude, queue,
               visited_categories, articles, category_title, depth,
               visit_log, enqueue_log>>
membersVars == <<fm_pc, cmtitle, member_type, members, continue_token,
                 fm_requests, fm_responses, call_log>>
httpVars == <<h_fn, h_pc, attempt, backoff_seconds, response, h_payload,
              h_log, h_result>>
extractVars == <<x_fn, x_pc, categories, quality, wikiprojects>>
metaVars == <<m_pc, m_title, page_data, m_pageid, talk_page, m_requests,
              m_result>>
assembleVars == <<script, a_pc, write_intermediate, article_refs,
                  pageview_totals, metadata_records, metadata_by_pageid, rank,
                  a_exit, combined_file, views_file, meta_file, opened,
                  fetch_log, read_log>>
mainVars == <<exclude_option>>
convertVars == <<cv_pc, cv_rows, buckets, bucket_index, lines, output_file>>
enrichVars == <<extractVars, metaVars, assembleVars, mainVars, convertVars>>
vars == <<wikiVars, crawlVars, membersVars, httpVars, enrichVars>>

----------------------------------------------------------------------------
(* Bounds of the model. *)

\* crawl_category is called with max_depth in 0..MaxDepth
MaxDepth == 2
\* the wiki holds the categories CatNames[1..NumCats]
NumCats == 3
\* the wiki holds the pages 1..NumPages
NumPages == 2
\* the category graph has at most MaxEdges subcategory edges
MaxEdges == 3
\* at most MaxMemberships (page, category) memberships
MaxMemberships == 2
\* the exclusion set holds at most MaxExcluded titles
MaxExcluded == 1
\* the query API returns at most CmLimit members per response
CmLimit == 1

CatNames == <<"Sample", "Sub", "Other", "Extra">>
PageNames == <<"P1", "P2", "P3", "P4">>
TokenNames == <<"c1", "c2", "c3", "c4", "c5", "c6">>

Min(a, b) == IF a < b THEN a ELSE b

----------------------------------------------------------------------------
(* Titles. *)

Prefix == "Category:"

\* str.startswith("Category:")
StartsWithPrefix(title) == Len(title) > 0 /\ title[1] = Prefix

\* f"Category:{title}"
AddPrefix(title) == <<Prefix>> \o title

\* if not title.startswith("Category:"): title = f"Category:{title}"
Normalised(title) == IF StartsWithPrefix(title) THEN title ELSE AddPrefix(title)

\* str.removeprefix("Category:")
RemovePrefix(title) == IF StartsWithPrefix(title) THEN Tail(title) ELSE title

\* exclude or set()
OrEmptySet(opt) == IF opt = {} \/ opt = {{}} THEN {} ELSE CHOOSE s \in opt : TRUE

----------------------------------------------------------------------------
(* The wiki: categories, pages, and the listing the query API serves. *)

CatIndex == 1..NumCats
Cats == {<<Prefix, CatNames[i]>> : i \in CatIndex}
Pages == 1..NumPages
PageTitle(p) == <<PageNames[p]>>

\* the categories in the order the API lists them
CatSeq == [i \in CatIndex |-> <<Prefix, CatNames[i]>>]
PageSeq == [p \in Pages |-> p]

PageItem(p) == [pageid |-> p, title |-> PageTitle(p)]
SubcatItem(c) == [pageid |-> 0, title |-> c]

CatsIn(S) == SelectSeq(CatSeq, LAMBDA c : c \in S)
PagesIn(S) == SelectSeq(PageSeq, LAMBDA p : p \in S)

\* every member of a category of the given type, in listing order
FullListing(title, type) ==
    IF title \notin Cats THEN <<>>
    ELSE IF type = "page"
         THEN [i \in 1..Len(PagesIn(pagesOf[title])) |->
                  PageItem(PagesIn(pagesOf[title])[i])]
         ELSE [i \in 1..Len(CatsIn(subcatsOf[title])) |->
                  SubcatItem(CatsIn(subcatsOf[title])[i])]

TokenOffset(tok) == CHOOSE i \in 1..Len(TokenNames) : TokenNames[i] = tok

\* the payload the API returns to one categorymembers query
WikiListing(params) ==
    LET full == FullListing(params.cmtitle, params.cmtype)
        from == IF params.cmcontinue = {} THEN 0
                ELSE TokenOffset(CHOOSE t \in params.cmcontinue : TRUE)
        upto == Min(from + CmLimit, Len(full))
    IN  [categorymembers |-> SubSeq(full, from + 1, upto),
         continue |-> IF upto < Len(full) THEN {TokenNames[upto]} ELSE {}]

----------------------------------------------------------------------------
(* fetch_category_members (categories.py 4-24). *)

\* "if continue_token:" / "if not continue_token:" (None and "" are falsy)
Truthy(token) == token # {} /\ token # {""}

\* a slip: the continuation token is not sent
RequestParamsNoCursor ==
    [cmtitle |-> cmtitle, cmtype |-> member_type, cmcontinue |-> {}]

\* the parameters of the next request (lines 10-18)
RequestParams ==
    [cmtitle |-> cmtitle, cmtype |-> member_type,
     cmcontinue |-> IF Truthy(continue_token) THEN continue_token ELSE {}]

\* lines 5-8: the call, up to the first request
MembersCall(title, type) ==
    /\ cmtitle' = Normalised(title)
    /\ member_type' = type
    /\ members' = <<>>
    /\ continue_token' = {}
    /\ fm_requests' = <<>>
    /\ fm_responses' = <<>>
    /\ fm_pc' = "request"
    /\ call_log' = Append(call_log, <<title, type>>)

\* lines 9-23: one turn of the loop, mw_get returning payload
MembersRequest(payload) ==
    /\ fm_pc = "request"
    /\ fm_requests' = Append(fm_requests, RequestParams)
    /\ fm_responses' = Append(fm_responses, payload)
    /\ members' = members \o payload.categorymembers
    /\ continue_token' = payload.continue
    /\ fm_pc' = IF Truthy(payload.continue) THEN "request" ELSE "return"
    /\ UNCHANGED <<cmtitle, member_type, call_log>>

\* line 19: mw_get raises (retries exhausted, or an error payload)
MembersRaise ==
    /\ fm_pc = "request"
    /\ fm_requests' = Append(fm_requests, RequestParams)
    /\ fm_pc' = "raised"
    /\ UNCHANGED <<cmtitle, member_type, members, continue_token,
                   fm_responses, call_log>>

\* line 24 has returned and the caller has taken the list
MembersIdle ==
    /\ fm_pc' = "idle"
    /\ UNCHANGED <<cmtitle, member_type, members, continue_token,
                   fm_requests, fm_responses, call_log>>

----------------------------------------------------------------------------
(* crawl_category (categories.py 27-56). *)

\* a slip: the exclusion set filters the root as well
InitialQueueUnlessExcluded(root) ==
    IF root \in OrEmptySet(exclude_arg) THEN <<>> ELSE << <<root, 0>> >>

\* line 37: deque([(root_category, 0)])
InitialQueue(root) == << <<root, 0>> >>

\* a slip: the head is read and left in the queue (queue[0])
PopLeftPeeks(q) == q

\* line 42: queue.popleft() leaves the rest of the queue
PopLeft(q) == Tail(q)

\* a slip: the visited set is never consulted
AlreadyVisitedNever(title) == FALSE

\* line 43: category_title in visited_categories
AlreadyVisited(title) == title \in visited_categories

\* a slip: the first write wins (setdefault)
DictSetDefault(d, item, source) ==
    IF \E e \in d : e.pageid = item.pageid THEN d
    ELSE d \cup {[pageid |-> item.pageid, title |-> item.title, source |-> source]}

\* line 48: articles[pageid] = (title, source): a dict holds one value per key
DictSet(d, item, source) ==
    {e \in d : e.pageid # item.pageid}
        \cup {[pageid |-> item.pageid, title |-> item.title, source |-> source]}

\* lines 47-48: the for loop over the page members
RECURSIVE StoreAll(_, _, _)
StoreAll(d, items, source) ==
    IF items = <<>> THEN d
    ELSE StoreAll(DictSet(d, Head(items), source), Tail(items), source)

\* a slip: depth <= max_depth
MayRecurseInclusive(d) == d <= max_depth

\* line 50: depth < max_depth
MayRecurse(d) == d < max_depth

\* a slip: the exclusion set is not consulted
ShouldEnqueueExcluded(sub_title) == sub_title \notin visited_categories

\* line 53: sub_title not in visited_categories and sub_title not in exclude
ShouldEnqueue(sub_title) ==
    sub_title \notin visited_categories /\ sub_title \notin exclude

\* a slip: the subcategory is enqueued at its parent's depth
QueueEntrySameDepth(sub_title, d) == <<sub_title, d>>

\* line 54: the queue entry of a subcategory
QueueEntry(sub_title, d) == <<sub_title, d + 1>>

\* lines 51-54: the entries the for loop over the subcategories appends
Appended(items, d) ==
    LET kept == SelectSeq(items, LAMBDA it : ShouldEnqueue(it.title))
    IN  [i \in 1..Len(kept) |-> QueueEntry(kept[i].title, d)]

\* lines 33-39
Begin ==
    /\ pc = "start"
    /\ exclude' = OrEmptySet(exclude_arg)
    /\ exclude_arg' = {}
    /\ root_category' = Normalised(root_category)
    /\ queue' = InitialQueue(Normalised(root_category))
    /\ visited_categories' = {}
    /\ articles' = {}
    /\ pc' = "loop"
    /\ UNCHANGED <<max_depth, category_title, depth, visit_log, enqueue_log>>
    /\ UNCHANGED <<enrichVars, wikiVars, membersVars, httpVars>>

\* lines 41-45: a title is dequeued that was visited before
DequeueVisited ==
    /\ pc = "loop"
    /\ queue # <<>>
    /\ AlreadyVisited(Head(queue)[1])
    /\ queue' = PopLeft(queue)
    /\ category_title' = Head(queue)[1]
    /\ depth' = Head(queue)[2]
    /\ UNCHANGED <<pc, root_category, max_depth, exclude_arg, exclude,
                   visited_categories, articles, visit_log, enqueue_log>>
    /\ UNCHANGED <<enrichVars, wikiVars, membersVars, httpVars>>

\* lines 41-47: a new title is dequeued and its page members are asked for
DequeueNew ==
    /\ pc = "loop"
    /\ queue # <<>>
    /\ ~AlreadyVisited(Head(queue)[1])
    /\ queue' = PopLeft(queue)
    /\ category_title' = Head(queue)[1]
    /\ depth' = Head(queue)[2]
    /\ visited_categories' = visited_categories \cup {Head(queue)[1]}
    /\ visit_log' = Append(visit_log, Head(queue))
    /\ MembersCall(Head(queue)[1], "page")
    /\ pc' = "pages"
    /\ UNCHANGED <<root_category, max_depth, exclude_arg, exclude, articles,
                   enqueue_log>>
    /\ UNCHANGED <<enrichVars, wikiVars, httpVars>>

\* lines 47, 51: one request of the member listing in progress
ListingRequest ==
    /\ pc \in {"pages", "subcats"}
    /\ MembersRequest(WikiListing(RequestParams))
    /\ UNCHANGED <<enrichVars, wikiVars, crawlVars, httpVars>>

\* lines 47, 51: the member listing raises and crawl_category with it
ListingRaises ==
    /\ pc \in {"pages", "subcats"}
    /\ MembersRaise
    /\ pc' = "raised"
    /\ UNCHANGED <<root_category, max_depth, exclude_arg, exclude, queue,
                   visited_categories, articles, category_title, depth,
                   visit_log, enqueue_log>>
    /\ UNCHANGED <<enrichVars, wikiVars, httpVars>>

\* lines 47-50: the page members are stored; the subcategories are asked for
\* when depth < max_depth
RecordPages ==
    /\ pc = "pages"
    /\ fm_pc = "return"
    /\ articles' = StoreAll(articles, members, RemovePrefix(category_title))
    /\ IF MayRecurse(depth)
       THEN pc' = "subcats" /\ MembersCall(category_title, "subcat")
       ELSE pc' = "loop" /\ MembersIdle
    /\ UNCHANGED <<root_category, max_depth, exclude_arg, exclude, queue,
                   visited_categories, category_title, depth, visit_log,
                   enqueue_log>>
    /\ UNCHANGED <<enrichVars, wikiVars, httpVars>>

\* lines 51-54: the subcategories neither visited nor excluded are enqueued
EnqueueSubcats ==
    /\ pc = "subcats"
    /\ fm_pc = "return"
    /\ queue' = queue \o Appended(members, depth)
    /\ enqueue_log' = enqueue_log \o Appended(members, depth)
    /\ pc' = "loop"
    /\ MembersIdle
    /\ UNCHANGED <<root_category, max_depth, exclude_arg, exclude,
                   visited_categories, articles, category_title, depth,
                   visit_log>>
    /\ UNCHANGED <<enrichVars, wikiVars, httpVars>>

\* lines 41, 56: the queue is empty and the function returns
Return ==
    /\ pc = "loop"
    /\ queue = <<>>
    /\ pc' = "done"
    /\ UNCHANGED <<root_category, max_depth, exclude_arg, exclude, queue,
                   visited_categories, articles, category_title, depth,
                   visit_log, enqueue_log>>
    /\ UNCHANGED <<enrichVars, wikiVars, membersVars, httpVars>>

----------------------------------------------------------------------------
(* The HTTP access layer: mw_get (clients.py 13-26) and the retry loop of  *)
(* get_yearly_total_views (pageviews.py 41-54). A response is a status and *)
(* a JSON body; h_log holds, in order, <<"get", status>> for every request *)
(* sent (status 0: session.get raised) and <<"sleep", seconds>> for every  *)
(* time.sleep.                                                             *)

\* range(6)
MaxAttempts == 6
\* backoff_seconds = 1.0
FirstBackoff == 1
\* min(backoff_seconds * 2, 30.0)
BackoffCap == 30

\* the statuses the upstream answers with
Statuses == {200, 204, 404, 429, 500}

\* the bodies of the query API: with or without an "error" field
MwPayloads == {[error |-> {}], [error |-> {"badvalue"}]}

\* the bodies of the metrics API: "items" missing or a list of data points,
\* a data point with or without "views"
YearlyPayloads ==
    {[items |-> {}], [items |-> {<<>>}], [items |-> {<<{10}, {5}>>}],
     [items |-> {<<{10}, {}>>}]}

\* a slip: one turn too many
LoopContinuesOnceMore(n) == n <= MaxAttempts

\* for _attempt in range(6): another turn of the loop is due
LoopContinues(n) == n < MaxAttempts

\* a slip: the cap is left out
NextBackoffUncapped(b) == b * 2

\* backoff_seconds = min(backoff_seconds * 2, 30.0)
NextBackoff(b) == Min(b * 2, BackoffCap)

\* requests: Response.raise_for_status() raises HTTPError for 4xx and 5xx
RaisesForStatus(status) == 400 <= status /\ status < 600

\* requests: Response.ok is "raise_for_status() does not raise"
Ok(status) == ~RaisesForStatus(status)

\* a slip: the error field of the payload is not looked at
HasErrorIgnored(payload) == FALSE

\* "error" in payload
HasError(payload) == payload.error # {}

\* a slip: a 404 is handled like any other status
IsNoDataNever(status) == FALSE

\* pageviews.py 44: response.status_code == 404
IsNoData(status) == status = 404

\* a slip: the data points are counted, not their views added
SumViewsCounts(items) == Len(items)

\* point.get("views", 0)
ViewsOf(point) == IF point = {} THEN 0 ELSE CHOOSE v \in point : TRUE

\* sum(point.get("views", 0) for point in items)
RECURSIVE SumViews(_)
SumViews(items) ==
    IF items = <<>> THEN 0 ELSE ViewsOf(Head(items)) + SumViews(Tail(items))

\* payload.get("items", [])
ItemsOf(payload) == IF payload.items = {} THEN <<>> ELSE CHOOSE l \in payload.items : TRUE

NoResult == [kind |-> "none", exc |-> "", status |-> 0]
Returned(v) == [kind |-> "return", exc |-> "", status |-> 0, value |-> v]
Raised(e, st) == [kind |-> "raise", exc |-> e, status |-> st]

\* time.sleep(backoff_seconds); backoff_seconds = min(backoff_seconds * 2, 30.0)
SleepAndBackOff(status) ==
    /\ h_log' = h_log \o << <<"get", status>>, <<"sleep", backoff_seconds>> >>
    /\ backoff_seconds' = NextBackoff(backoff_seconds)
    /\ attempt' = attempt + 1
    /\ response' = {status}
    /\ UNCHANGED <<h_fn, h_pc, h_result>>

\* the call ends: it returns or raises
Ends(status, result) ==
    /\ h_log' = Append(h_log, <<"get", status>>)
    /\ response' = IF status = 0 THEN response ELSE {status}
    /\ h_result' = result
    /\ h_pc' = result.kind
    /\ UNCHANGED <<h_fn, attempt, backoff_seconds>>

\* clients.py 16-24: one turn of the loop of mw_get
MwGetAttempt ==
    /\ h_fn = "mw_get"
    /\ h_pc = "loop"
    /\ LoopContinues(attempt)
    /\ \E status \in Statuses, payload \in MwPayloads :
          /\ IF status = 200
             THEN IF HasError(payload)
                  THEN Ends(status, Raised("RuntimeError(payload error)", 0))
                  ELSE Ends(status, Returned(payload))
             ELSE SleepAndBackOff(status)
          /\ h_payload' = IF status = 200 THEN {payload} ELSE h_payload
    /\ UNCHANGED <<enrichVars, wikiVars, crawlVars, membersVars>>

\* clients.py 17: session.get raises (no connection, timeout)
MwGetNoResponse ==
    /\ h_fn = "mw_get"
    /\ h_pc = "loop"
    /\ LoopContinues(attempt)
    /\ Ends(0, Raised("RequestException", 0))
    /\ UNCHANGED h_payload
    /\ UNCHANGED <<enrichVars, wikiVars, crawlVars, membersVars>>

\* clients.py 25-26: the loop is over
MwGetExhausted ==
    /\ h_fn = "mw_get"
    /\ h_pc = "loop"
    /\ ~LoopContinues(attempt)
    /\ LET status == CHOOSE st \in response : TRUE
       IN  h_result' = IF RaisesForStatus(status)
                       THEN Raised("HTTPError", status)
                       ELSE Raised("RuntimeError(Unreachable)", 0)
    /\ h_pc' = "raise"
    /\ UNCHANGED <<h_fn, attempt, backoff_seconds, response, h_payload, h_log>>
    /\ UNCHANGED <<enrichVars, wikiVars, crawlVars, membersVars>>

\* pageviews.py 42-51: one turn of the loop of get_yearly_total_views
YearlyAttempt ==
    /\ h_fn = "get_yearly_total_views"
    /\ h_pc = "loop"
    /\ LoopContinues(attempt)
    /\ \E status \in Statuses, payload \in YearlyPayloads :
          /\ IF IsNoData(status)
             THEN Ends(status, Returned(0))
             ELSE IF Ok(status)
                  THEN Ends(status, Returned(SumViews(ItemsOf(payload))))
                  ELSE SleepAndBackOff(status)
          /\ h_payload' = IF ~IsNoData(status) /\ Ok(status) THEN {payload}
                          ELSE h_payload
    /\ UNCHANGED <<enrichVars, wikiVars, crawlVars, membersVars>>

\* pageviews.py 43: session.get raises (no connection, timeout)
YearlyNoResponse ==
    /\ h_fn = "get_yearly_total_views"
    /\ h_pc = "loop"
    /\ LoopContinues(attempt)
    /\ Ends(0, Raised("RequestException", 0))
    /\ UNCHANGED h_payload
    /\ UNCHANGED <<enrichVars, wikiVars, crawlVars, membersVars>>

\* pageviews.py 53-54: the loop is over
YearlyExhausted ==
    /\ h_fn = "get_yearly_total_views"
    /\ h_pc = "loop"
    /\ ~LoopContinues(attempt)
    /\ LET status == CHOOSE st \in response : TRUE
       IN  h_result' = IF RaisesForStatus(status)
                       THEN Raised("HTTPError", status)
                       ELSE Returned(0)
    /\ h_pc' = h_result'.kind
    /\ UNCHANGED <<h_fn, attempt, backoff_seconds, response, h_payload, h_log>>
    /\ UNCHANGED <<enrichVars, wikiVars, crawlVars, membersVars>>

----------------------------------------------------------------------------
(* The talk-page categories: extract_quality and extract_wikiprojects      *)
(* (mw.py 7-40). A category is a dict with an optional title; a title is a *)
(* sequence of tokens as above, <<"Category:", "FA", "-Class", " articles">> *)
(* being "Category:FA-Class articles". A project name is compared by the   *)
(* code points of its characters, as Python compares strings.              *)

QUALITY_ORDER == <<"FA", "FL", "A", "GA", "B", "C", "Start", "Stub", "List">>

\* the alternation of QUALITY_PATTERN
PatternGrades == {"FA", "FL", "A", "GA", "B", "C", "Start", "Stub", "List"}

\* the tokens that begin with a word character: no \b before them
WordStartTokens == {"ic articles", "room"}

\* category.get("title", "")
TitleOf(category) ==
    IF category.title = {} THEN <<>> ELSE CHOOSE t \in category.title : TRUE

\* QUALITY_PATTERN.search(title): group 1 of the match, if any
QUALITY_PATTERN(title) ==
    IF /\ Len(title) >= 3
       /\ title[1] = "Category:"
       /\ title[2] \in PatternGrades
       /\ title[3] = "-Class"
       /\ Len(title) > 3 => title[4] \notin WordStartTokens
    THEN {title[2]} ELSE {}

\* the loop of extract_quality: the grades found
Found(cats) == UNION {QUALITY_PATTERN(TitleOf(cats[i])) : i \in 1..Len(cats)}

\* a slip: the grade of the first category that matches is returned
extract_quality_first_match(cats) ==
    LET hits == {i \in 1..Len(cats) : QUALITY_PATTERN(TitleOf(cats[i])) # {}}
    IN  IF hits = {} THEN {}
        ELSE QUALITY_PATTERN(TitleOf(cats[CHOOSE i \in hits : \A j \in hits : i <= j]))

\* the first grade of QUALITY_ORDER that was found, or None
extract_quality(cats) ==
    LET found == Found(cats)
        hits == {i \in 1..Len(QUALITY_ORDER) : QUALITY_ORDER[i] \in found}
    IN  IF hits = {} THEN {}
        ELSE {QUALITY_ORDER[CHOOSE i \in hits : \A j \in hits : i <= j]}

\* re.search(r"^Category:WikiProject (.+?) articles$", title): group 1
WikiProjectOf(title) ==
    IF /\ Len(title) >= 4
       /\ title[1] = "Category:"
       /\ title[2] = "WikiProject "
       /\ title[Len(title)] = " articles"
    THEN {SubSeq(title, 3, Len(title) - 1)} ELSE {}

\* the code points of the characters of a token
CodePoints(token) ==
    CASE token = "Zoo" -> <<90, 111, 111>>
      [] token = "apes" -> <<97, 112, 101, 115>>
      [] token = "Apes" -> <<65, 112, 101, 115>>
      [] token = " articles" -> <<32, 97, 114, 116, 105, 99, 108, 101, 115>>
      [] OTHER -> <<>>

RECURSIVE CodesOf(_)
CodesOf(name) ==
    IF name = <<>> THEN <<>> ELSE CodePoints(Head(name)) \o CodesOf(Tail(name))

\* a < b for two strings given by their code points
RECURSIVE LexLess(_, _)
LexLess(a, b) ==
    IF a = <<>> THEN b # <<>>
    ELSE IF b = <<>> THEN FALSE
    ELSE IF a[1] # b[1] THEN a[1] < b[1]
    ELSE LexLess(Tail(a), Tail(b))

\* sorted(projects)
RECURSIVE SortedNames(_)
SortedNames(S) ==
    IF S = {} THEN <<>>
    ELSE LET least == CHOOSE n \in S :
                         \A o \in S \ {n} : LexLess(CodesOf(n), CodesOf(o))
         IN  <<least>> \o SortedNames(S \ {least})

\* a slip: the names are collected in a list, in the order of the categories
extract_wikiprojects_listed(cats) ==
    LET RECURSIVE Listed(_)
        Listed(k) ==
            IF k = 0 THEN <<>>
            ELSE LET hit == WikiProjectOf(TitleOf(cats[k]))
                 IN  Listed(k - 1) \o (IF hit = {} THEN <<>> ELSE <<CHOOSE n \in hit : TRUE>>)
    IN  Listed(Len(cats))

extract_wikiprojects(cats) ==
    SortedNames(UNION {WikiProjectOf(TitleOf(cats[i])) : i \in 1..Len(cats)})

ExtractQuality ==
    /\ x_pc = "call"
    /\ x_fn = "extract_quality"
    /\ quality' = extract_quality(categories)
    /\ x_pc' = "return"
    /\ UNCHANGED <<x_fn, categories, wikiprojects>>
    /\ UNCHANGED <<mainVars, convertVars>>
    /\ UNCHANGED <<wikiVars, crawlVars, membersVars, httpVars, metaVars, assembleVars>>

ExtractWikiprojects ==
    /\ x_pc = "call"
    /\ x_fn = "extract_wikiprojects"
    /\ wikiprojects' = extract_wikiprojects(categories)
    /\ x_pc' = "return"
    /\ UNCHANGED <<x_fn, categories, quality>>
    /\ UNCHANGED <<mainVars, convertVars>>
    /\ UNCHANGED <<wikiVars, crawlVars, membersVars, httpVars, metaVars, assembleVars>>

----------------------------------------------------------------------------
(* fetch_article_meta (mw.py 42-98). The two mw_get calls are answered by  *)
(* the upstream with a payload, or raise one of the errors of mw_get. A    *)
(* page entry is a dict of optional fields. A text is a sequence of tokens, *)
(* "w" a word and " " a run of white space. A URL is an optional tuple of  *)
(* its parts, empty for "".                                                *)

\* what mw_get raises (clients.py 21, 17, 25, 26)
MwGetErrors == {"RuntimeError(payload error)", "RequestException", "HTTPError",
                "RuntimeError(Unreachable)"}

Value(v) == [kind |-> "value", value |-> v]

\* a slip: d.get(key, 0), the page id of a missing page defaulting to 0
LookupDefault(d, key) ==
    IF d[key] = {} THEN Value(0) ELSE Value(CHOOSE v \in d[key] : TRUE)

\* d[key]: the value, or a KeyError
Lookup(d, key) ==
    IF d[key] = {} THEN [kind |-> "KeyError"]
    ELSE Value(CHOOSE v \in d[key] : TRUE)

\* d.get(key, default)
Get(d, key, default) == IF d[key] = {} THEN default ELSE CHOOSE v \in d[key] : TRUE

\* next(iter(data["query"]["pages"].values()))
FirstPage(payload) ==
    IF payload.pages = <<>> THEN [kind |-> "StopIteration"]
    ELSE Value(payload.pages[1])

\* len(extract_text.split())
SplitCount(text) ==
    Cardinality({i \in 1..Len(text) :
                    text[i] # " " /\ (i = 1 \/ text[i - 1] = " ")})

\* title.replace(' ', '_')
RECURSIVE Underscored(_)
Underscored(t) ==
    IF t = <<>> THEN <<>>
    ELSE <<IF Head(t) = " " THEN "_" ELSE Head(t)>> \o Underscored(Tail(t))

\* datetime.strptime(timestamp, "%Y-%m-%dT%H:%M:%SZ").date()
DateOf(timestamp) == timestamp.date

\* a slip: the record carries the default page id
ArticleMetaDefaultId(t, pd, pid, cats) ==
    [pageid |-> 0, title |-> Lookup(pd, "title").value, quality |-> extract_quality(cats)]

\* the ArticleMeta of lines 55-70 and 82-98; "" is the empty optional
ArticleMetaOf(t, pd, pid, cats) ==
    LET extract_text == Get(pd, "extract", <<>>)
        revision_info == Get(pd, "revisions", <<>>)
        rev_id == IF revision_info # <<>> THEN {revision_info[1].revid} ELSE {}
        last_edit == IF revision_info # <<>>
                     THEN {DateOf(revision_info[1].timestamp)} ELSE {}
        pageprops == Get(pd, "pageprops", [wikibase_item |-> {}, shortdesc |-> {}])
        wikidata_id == Get(pageprops, "wikibase_item", "")
    IN  [pageid |-> pid,
         title |-> Lookup(pd, "title").value,
         shortdesc |-> Get(pageprops, "shortdesc", ""),
         size_bytes |-> Get(pd, "length", 0),
         word_count |-> SplitCount(extract_text),
         last_edit |-> last_edit,
         rev_id |-> rev_id,
         rev_url |-> IF rev_id # {} /\ rev_id # {0}
                     THEN {<<"https://en.wikipedia.org/w/index.php?title=",
                             Underscored(t), "&oldid=", rev_id>>}
                     ELSE {},
         wikidata_id |-> wikidata_id,
         wikidata_url |-> IF wikidata_id # ""
                          THEN {<<"https://www.wikidata.org/wiki/", wikidata_id>>}
                          ELSE {},
         wikiprojects |-> extract_wikiprojects(cats),
         quality |-> extract_quality(cats)]

MetaEnds(result) ==
    /\ m_pc' = IF result.kind = "return" THEN "return" ELSE "raise"
    /\ m_result' = result

\* lines 44-53: the article is requested; the page id is read
ArticleStep(payload) ==
    /\ m_pc = "article"
    /\ m_requests' = Append(m_requests, m_title)
    /\ LET first == FirstPage(payload)
       IN  IF first.kind # "value"
           THEN /\ MetaEnds(Raised(first.kind, 0))
                /\ UNCHANGED <<page_data, m_pageid>>
           ELSE /\ page_data' = {first.value}
                /\ LET found == Lookup(first.value, "pageid")
                   IN  IF found.kind # "value"
                       THEN /\ MetaEnds(Raised(found.kind, 0))
                            /\ UNCHANGED m_pageid
                       ELSE /\ m_pageid' = {found.value}
                            /\ m_pc' = "talk"
                            /\ UNCHANGED m_result
    /\ UNCHANGED <<m_title, talk_page>>
    /\ UNCHANGED <<mainVars, convertVars>>
    /\ UNCHANGED <<wikiVars, crawlVars, membersVars, httpVars, extractVars,
                   assembleVars>>

\* lines 44, 73: mw_get raises
MetaRequestRaises(exc) ==
    /\ m_pc \in {"article", "talk"}
    /\ m_requests' = Append(m_requests,
                            IF m_pc = "article" THEN m_title ELSE <<"Talk:">> \o m_title)
    /\ MetaEnds(Raised(exc, 0))
    /\ UNCHANGED <<m_title, page_data, m_pageid, talk_page>>
    /\ UNCHANGED <<mainVars, convertVars>>
    /\ UNCHANGED <<wikiVars, crawlVars, membersVars, httpVars, extractVars,
                   assembleVars>>

\* lines 73-98: the talk page is requested; the record is built
TalkStep(payload) ==
    /\ m_pc = "talk"
    /\ m_requests' = Append(m_requests, <<"Talk:">> \o m_title)
    /\ LET first == FirstPage(payload)
           pd == CHOOSE d \in page_data : TRUE
           pid == CHOOSE i \in m_pageid : TRUE
       IN  IF first.kind # "value"
           THEN /\ MetaEnds(Raised(first.kind, 0))
                /\ UNCHANGED talk_page
           ELSE /\ talk_page' = {first.value}
                /\ LET talk_categories == Get(first.value, "categories", <<>>)
                   IN  IF Lookup(pd, "title").kind # "value"
                       THEN MetaEnds(Raised(Lookup(pd, "title").kind, 0))
                       ELSE MetaEnds(Returned(
                               ArticleMetaOf(m_title, pd, pid, talk_categories)))
    /\ UNCHANGED <<m_title, page_data, m_pageid>>
    /\ UNCHANGED <<mainVars, convertVars>>
    /\ UNCHANGED <<wikiVars, crawlVars, membersVars, httpVars, extractVars,
                   assembleVars>>

----------------------------------------------------------------------------
(* The assembler: main of bin/fetch_yearly_views_and_metadata.py (45-152)  *)
(* with the loops of compute_yearly_views and fetch_metadata (enrich.py    *)
(* 7-37), and main of bin/join_views_with_metadata.py (10-70). An article  *)
(* title is the sequence of the code points of its characters, so that     *)
(* lower() and the comparison of strings are computed. A file is the       *)
(* sequence of the rows written to it, the header row left out.            *)

Pipeline == "fetch_yearly_views_and_metadata"
Join == "join_views_with_metadata"

\* a slip: the intermediate path is derived whether asked for or not
IntermediatePathAlways(flag, name) == {name}

\* derive_output_paths: views_path and meta_path, None unless the
\* intermediate files are asked for
IntermediatePath(flag, name) == IF flag THEN {name} ELSE {}

\* a slip: the case of the title is kept
LowerKept(t) == t

\* str.lower(), of the letters A-Z
Lower(t) == [i \in 1..Len(t) |-> IF t[i] >= 65 /\ t[i] <= 90 THEN t[i] + 32 ELSE t[i]]

\* key(a) < key(b) for key = lambda r: (-r.yearly_views, r.title.lower())
KeyLess(a, b) ==
    \/ -a.yearly_views < -b.yearly_views
    \/ /\ a.yearly_views = b.yearly_views
       /\ LexLess(Lower(a.title), Lower(b.title))

\* list.sort(key=...): stable, a record stays behind those of an equal key
RECURSIVE Sorted(_)
Sorted(seq) ==
    IF seq = <<>> THEN <<>>
    ELSE LET front == Sorted(SubSeq(seq, 1, Len(seq) - 1))
             last == seq[Len(seq)]
             ahead == {i \in 1..Len(front) : ~KeyLess(last, front[i])}
             k == IF ahead = {} THEN 0
                  ELSE CHOOSE i \in ahead : \A j \in ahead : j <= i
         IN  SubSeq(front, 1, k) \o <<last>> \o SubSeq(front, k + 1, Len(front))

\* meta.quality or ""
OrEmpty(optional) == IF optional = {} THEN "" ELSE CHOOSE v \in optional : TRUE

\* {meta.pageid: (shortdesc, word_count, quality or "") for meta in records}:
\* the pairs of the dict, a later record replacing an earlier one of the same id
RECURSIVE DictOf(_)
DictOf(records) ==
    IF records = <<>> THEN {}
    ELSE LET meta == records[Len(records)]
             earlier == DictOf(SubSeq(records, 1, Len(records) - 1))
         IN  {e \in earlier : e[1] # meta.pageid}
                \cup {<<meta.pageid,
                        <<meta.shortdesc, meta.word_count, OrEmpty(meta.quality)>>>>}

\* d.get(key, default)
DictGet(d, key, default) ==
    IF \E e \in d : e[1] = key THEN (CHOOSE e \in d : e[1] = key)[2] ELSE default

\* lines 136-150: the row written for a total at a rank
CombinedRow(place, total, d) ==
    LET meta == DictGet(d, total.pageid, <<"", 0, "">>)
    IN  [rank |-> place, pageid |-> total.pageid, title |-> total.title,
         category |-> total.category, yearly_views |-> total.yearly_views,
         shortdesc |-> meta[1], word_count |-> meta[2], quality |-> meta[3]]

\* a slip: a total without metadata gets no row
CombinedRowsInner(totals, d) ==
    LET known == SelectSeq(totals, LAMBDA t : \E e \in d : e[1] = t.pageid)
    IN  [i \in 1..Len(known) |-> CombinedRow(i, known[i], d)]

\* for rank, total in enumerate(pageview_totals, start=1): the rows written
CombinedRows(totals, d) ==
    [i \in 1..Len(totals) |-> CombinedRow(i, totals[i], d)]

Exit(how) ==
    /\ a_exit' = how
    /\ a_pc' = "exited"

\* a slip: the output path is never found
ExistsNever(file) == FALSE

\* combined_path.exists() (pipeline line 80, join line 19)
Exists(file) == file # {}

\* lines 80-86: the output path is checked; the article refs are read
PipelineStart ==
    /\ script = Pipeline
    /\ a_pc = "start"
    /\ IF Exists(combined_file)
       THEN Exit("exit(1)")
       ELSE a_pc' = "views" /\ UNCHANGED a_exit
    /\ read_log' = IF Exists(combined_file) THEN read_log
                   ELSE Append(read_log, "articles")
    /\ UNCHANGED <<script, write_intermediate, article_refs, pageview_totals,
                   metadata_records, metadata_by_pageid, rank, combined_file,
                   views_file, meta_file, opened>>
    /\ UNCHANGED fetch_log
    /\ UNCHANGED <<mainVars, convertVars>>
    /\ UNCHANGED <<wikiVars, crawlVars, membersVars, httpVars, extractVars, metaVars>>

\* a slip: the articles are gone through from the last to the first
NextArticleReversed(results) == article_refs[Len(article_refs) - Len(results)]

\* for article in articles: the article of the turn that follows the results
NextArticle(results) == article_refs[Len(results) + 1]

Fetch(fn, title, returned) == [fn |-> fn, title |-> title, returned |-> returned]

\* enrich.py 16-25: get_yearly_total_views returns; the total is appended
ViewsFetched(total_views) ==
    /\ script = Pipeline
    /\ a_pc = "views"
    /\ Len(pageview_totals) < Len(article_refs)
    /\ LET article == NextArticle(pageview_totals)
       IN  /\ pageview_totals' = Append(pageview_totals,
                  [pageid |-> article.pageid, title |-> article.title,
                   category |-> article.category, yearly_views |-> total_views])
           /\ fetch_log' = Append(fetch_log,
                  Fetch("get_yearly_total_views", article.title, {total_views}))
    /\ UNCHANGED <<script, a_pc, write_intermediate, article_refs,
                   metadata_records, metadata_by_pageid, rank, a_exit,
                   combined_file, views_file, meta_file, opened>>
    /\ UNCHANGED read_log
    /\ UNCHANGED <<mainVars, convertVars>>
    /\ UNCHANGED <<wikiVars, crawlVars, membersVars, httpVars, extractVars, metaVars>>

\* enrich.py 17, 36: get_yearly_total_views or fetch_article_meta raises;
\* nothing catches it
FetchRaises ==
    /\ script = Pipeline
    /\ \/ /\ a_pc = "views"
          /\ Len(pageview_totals) < Len(article_refs)
          /\ fetch_log' = Append(fetch_log,
                 Fetch("get_yearly_total_views", NextArticle(pageview_totals).title, {}))
       \/ /\ a_pc = "meta"
          /\ Len(metadata_records) < Len(article_refs)
          /\ fetch_log' = Append(fetch_log,
                 Fetch("fetch_article_meta", NextArticle(metadata_records).title, {}))
    /\ Exit("raise")
    /\ UNCHANGED <<script, write_intermediate, article_refs, pageview_totals,
                   metadata_records, metadata_by_pageid, rank, combined_file,
                   views_file, meta_file, opened>>
    /\ UNCHANGED read_log
    /\ UNCHANGED <<mainVars, convertVars>>
    /\ UNCHANGED <<wikiVars, crawlVars, membersVars, httpVars, extractVars, metaVars>>

\* lines 92-97: the views are persisted if asked for
PersistViews ==
    /\ script = Pipeline
    /\ a_pc = "views"
    /\ Len(pageview_totals) = Len(article_refs)
    /\ IF IntermediatePath(write_intermediate, "views") # {}
       THEN /\ views_file' = {pageview_totals}
            /\ opened' = Append(opened, "views")
       ELSE UNCHANGED <<views_file, opened>>
    /\ a_pc' = "meta"
    /\ UNCHANGED <<script, write_intermediate, article_refs, pageview_totals,
                   metadata_records, metadata_by_pageid, rank, a_exit,
                   combined_file, meta_file>>
    /\ UNCHANGED <<fetch_log, read_log>>
    /\ UNCHANGED <<mainVars, convertVars>>
    /\ UNCHANGED <<wikiVars, crawlVars, membersVars, httpVars, extractVars, metaVars>>

\* what fetch_article_meta returns for an article: the metadata of its page,
\* rich or bare, or of a page by another id
MetaKinds == {"rich", "bare", "other"}

MetaFor(article, kind) ==
    CASE kind = "rich" ->
            [pageid |-> article.pageid, shortdesc |-> "a sample",
             word_count |-> 2, quality |-> {"GA"}]
      [] kind = "bare" ->
            [pageid |-> article.pageid, shortdesc |-> "", word_count |-> 0,
             quality |-> {}]
      [] kind = "other" ->
            [pageid |-> 9, shortdesc |-> "another", word_count |-> 2,
             quality |-> {}]

\* enrich.py 35-36: fetch_article_meta returns; the record is appended
MetaFetched(kind) ==
    /\ script = Pipeline
    /\ a_pc = "meta"
    /\ Len(metadata_records) < Len(article_refs)
    /\ LET article == NextArticle(metadata_records)
       IN  /\ metadata_records' = Append(metadata_records, MetaFor(article, kind))
           /\ fetch_log' = Append(fetch_log,
                  Fetch("fetch_article_meta", article.title, {MetaFor(article, kind)}))
    /\ UNCHANGED <<script, a_pc, write_intermediate, article_refs,
                   pageview_totals, metadata_by_pageid, rank, a_exit,
                   combined_file, views_file, meta_file, opened>>
    /\ UNCHANGED read_log
    /\ UNCHANGED <<mainVars, convertVars>>
    /\ UNCHANGED <<wikiVars, crawlVars, membersVars, httpVars, extractVars, metaVars>>

\* lines 103-110: the metadata is persisted if asked for
PersistMeta ==
    /\ script = Pipeline
    /\ a_pc = "meta"
    /\ Len(metadata_records) = Len(article_refs)
    /\ IF IntermediatePath(write_intermediate, "meta") # {}
       THEN /\ meta_file' =
                  {[i \in 1..Len(metadata_records) |->
                       [pageid |-> metadata_records[i].pageid,
                        shortdesc |-> metadata_records[i].shortdesc,
                        word_count |-> metadata_records[i].word_count,
                        quality |-> OrEmpty(metadata_records[i].quality)]]}
            /\ opened' = Append(opened, "meta")
       ELSE UNCHANGED <<meta_file, opened>>
    /\ a_pc' = "join"
    /\ UNCHANGED <<script, write_intermediate, article_refs, pageview_totals,
                   metadata_records, metadata_by_pageid, rank, a_exit,
                   combined_file, views_file>>
    /\ UNCHANGED <<fetch_log, read_log>>
    /\ UNCHANGED <<mainVars, convertVars>>
    /\ UNCHANGED <<wikiVars, crawlVars, membersVars, httpVars, extractVars, metaVars>>

\* lines 113-152: the dict is built, the totals are sorted in place, the
\* combined file is written
Assemble ==
    /\ script = Pipeline
    /\ a_pc = "join"
    /\ metadata_by_pageid' = DictOf(metadata_records)
    /\ pageview_totals' = Sorted(pageview_totals)
    /\ combined_file' = {CombinedRows(pageview_totals', metadata_by_pageid')}
    /\ rank' = Len(pageview_totals)
    /\ opened' = Append(opened, "combined")
    /\ a_pc' = "done"
    /\ UNCHANGED <<script, write_intermediate, article_refs, metadata_records,
                   a_exit, views_file, meta_file>>
    /\ UNCHANGED <<fetch_log, read_log>>
    /\ UNCHANGED <<mainVars, convertVars>>
    /\ UNCHANGED <<wikiVars, crawlVars, membersVars, httpVars, extractVars, metaVars>>

\* int(text): the integer a CSV field reads as, or a ValueError (None here)
IntOf(text) ==
    CASE text = "1" -> {1}
      [] text = "2" -> {2}
      [] text = "02" -> {2}
      [] OTHER -> {}

\* int(row["pageid"]) under except (KeyError, ValueError): the page id of a
\* row, or None when the row is skipped
PageIdOf(row) ==
    IF row.pageid = {} THEN {} ELSE IntOf(CHOOSE text \in row.pageid : TRUE)

NoMeta == [shortdesc |-> {}, word_count |-> {}, quality |-> {}]

\* join 24-37: the dict of the metadata rows, rows without a page id skipped,
\* a later row replacing an earlier one of the same id
RECURSIVE JoinDictOf(_)
JoinDictOf(rows) ==
    IF rows = <<>> THEN {}
    ELSE LET row == rows[Len(rows)]
             earlier == JoinDictOf(SubSeq(rows, 1, Len(rows) - 1))
             pageid == PageIdOf(row)
         IN  IF pageid = {} THEN earlier
             ELSE {e \in earlier : {e[1]} # pageid}
                     \cup {<<CHOOSE i \in pageid : TRUE,
                             [shortdesc |-> {Get(row, "shortdesc", "")},
                              word_count |-> {Get(row, "word_count", "")},
                              quality |-> {Get(row, "quality", "")}]>>}

\* join 59-69: the row written for a views row at a rank
JoinedRow(place, row, d) ==
    LET meta == DictGet(d, CHOOSE i \in PageIdOf(row) : TRUE, NoMeta)
    IN  [rank |-> place,
         pageid |-> Get(row, "pageid", ""),
         title |-> Get(row, "title", ""),
         category |-> Get(row, "category", ""),
         yearly_views |-> Get(row, "yearly_views", ""),
         shortdesc |-> Get(meta, "shortdesc", ""),
         word_count |-> Get(meta, "word_count", ""),
         quality |-> Get(meta, "quality", "")]

\* join 19-22: the output path is checked
JoinStart ==
    /\ script = Join
    /\ a_pc = "start"
    /\ IF Exists(combined_file)
       THEN Exit("exit(1)")
       ELSE a_pc' = "meta" /\ UNCHANGED a_exit
    /\ UNCHANGED <<script, write_intermediate, article_refs, pageview_totals,
                   metadata_records, metadata_by_pageid, rank, combined_file,
                   views_file, meta_file, opened>>
    /\ UNCHANGED <<fetch_log, read_log>>
    /\ UNCHANGED <<mainVars, convertVars>>
    /\ UNCHANGED <<wikiVars, crawlVars, membersVars, httpVars, extractVars, metaVars>>

\* join 24-53: the metadata file is read; the output is opened for writing
JoinReadMeta ==
    /\ script = Join
    /\ a_pc = "meta"
    /\ metadata_by_pageid' = JoinDictOf(CHOOSE rows \in meta_file : TRUE)
    /\ combined_file' = {<<>>}
    /\ opened' = Append(opened, "combined")
    /\ a_pc' = "rows"
    /\ UNCHANGED <<script, write_intermediate, article_refs, pageview_totals,
                   metadata_records, rank, a_exit, views_file, meta_file>>
    /\ read_log' = read_log \o <<"meta", "views">>
    /\ UNCHANGED fetch_log
    /\ UNCHANGED <<mainVars, convertVars>>
    /\ UNCHANGED <<wikiVars, crawlVars, membersVars, httpVars, extractVars, metaVars>>

\* join 54-70: one turn of the loop over enumerate(views_reader, start=1)
JoinRow ==
    /\ script = Join
    /\ a_pc = "rows"
    /\ LET rows == CHOOSE r \in views_file : TRUE
           written == CHOOSE w \in combined_file : TRUE
       IN  /\ rank < Len(rows)
           /\ rank' = rank + 1
           /\ IF PageIdOf(rows[rank']) = {}
              THEN UNCHANGED combined_file
              ELSE combined_file' =
                      {Append(written, JoinedRow(rank', rows[rank'], metadata_by_pageid))}
    /\ UNCHANGED <<script, a_pc, write_intermediate, article_refs,
                   pageview_totals, metadata_records, metadata_by_pageid,
                   a_exit, views_file, meta_file, opened>>
    /\ UNCHANGED <<fetch_log, read_log>>
    /\ UNCHANGED <<mainVars, convertVars>>
    /\ UNCHANGED <<wikiVars, crawlVars, membersVars, httpVars, extractVars, metaVars>>

\* join 70: the views file is exhausted
JoinEnd ==
    /\ script = Join
    /\ a_pc = "rows"
    /\ rank = Len(CHOOSE r \in views_file : TRUE)
    /\ a_pc' = "done"
    /\ UNCHANGED <<script, write_intermediate, article_refs, pageview_totals,
                   metadata_records, metadata_by_pageid, rank, a_exit,
                   combined_file, views_file, meta_file, opened>>
    /\ UNCHANGED <<fetch_log, read_log>>
    /\ UNCHANGED <<mainVars, convertVars>>
    /\ UNCHANGED <<wikiVars, crawlVars, membersVars, httpVars, extractVars, metaVars>>

----------------------------------------------------------------------------
(* main of bin/fetch_category_articles.py (11-33): the --exclude option is *)
(* split at its commas into items; an item is a title, a token " " being a *)
(* run of blanks.                                                          *)

\* str.strip()
RECURSIVE Strip(_)
Strip(item) ==
    IF item = <<>> THEN <<>>
    ELSE IF Head(item) = " " THEN Strip(Tail(item))
    ELSE IF item[Len(item)] = " " THEN Strip(SubSeq(item, 1, Len(item) - 1))
    ELSE item

\* {item.strip() for item in args.exclude.split(",") if item.strip()}
ExcludeSet(option) ==
    {Strip(option[i]) : i \in 1..Len(option)} \ {<<>>}

\* lines 25-33: the exclusion set is built and crawl_category is called
MainCall ==
    /\ pc = "main"
    /\ exclude_arg' = {ExcludeSet(exclude_option)}
    /\ pc' = "start"
    /\ UNCHANGED <<root_category, max_depth, exclude, queue, visited_categories,
                   articles, category_title, depth, visit_log, enqueue_log>>
    /\ UNCHANGED <<enrichVars, wikiVars, membersVars, httpVars>>

----------------------------------------------------------------------------
(* convert_csv_to_mw_table.py in the mode --group-by-category-year, over   *)
(* one input CSV. A string is the sequence of its code points. A row is a  *)
(* record of the columns rank, title, category and yearly_views; the cells *)
(* Quality, Words and Description of the table are left out. A line of the *)
(* output is a tuple that begins with its kind.                            *)

\* str.isdigit(), of the characters below 128
IsDigit(c) == 48 <= c /\ c <= 57

\* str.strip(), of the space
RECURSIVE StripText(_)
StripText(text) ==
    IF text = <<>> THEN <<>>
    ELSE IF Head(text) = 32 THEN StripText(Tail(text))
    ELSE IF text[Len(text)] = 32 THEN StripText(SubSeq(text, 1, Len(text) - 1))
    ELSE text

\* int(text) for a text of digits
RECURSIVE IntOfDigits(_)
IntOfDigits(text) ==
    IF text = <<>> THEN 0
    ELSE 10 * IntOfDigits(SubSeq(text, 1, Len(text) - 1)) + (text[Len(text)] - 48)

AllDigits(text) == \A i \in 1..Len(text) : IsDigit(text[i])

\* lines 84-94: the year a category begins with, or None
parse_category_year(category) ==
    LET stripped == StripText(category)
    IN  IF Len(stripped) >= 4 /\ AllDigits(SubSeq(stripped, 1, 4))
        THEN LET year == IntOfDigits(SubSeq(stripped, 1, 4))
             IN  IF 1000 <= year /\ year <= 2100 THEN {year} ELSE {}
        ELSE {}

\* lines 97-110; the dash of a decade's name is written "-" here
year_bucket_name(optional_year) ==
    IF optional_year = {} THEN "Unparseable"
    ELSE LET year == CHOOSE y \in optional_year : TRUE
         IN  IF year < 1980 THEN "Pre-1980"
             ELSE IF 1980 <= year /\ year <= 1989 THEN "1980-1989"
             ELSE IF 1990 <= year /\ year <= 1999 THEN "1990-1999"
             ELSE IF 2000 <= year /\ year <= 2009 THEN "2000-2009"
             ELSE IF 2010 <= year /\ year <= 2019 THEN "2010-2019"
             ELSE "2020-2029"

\* lines 112-123: the limit of a bucket, or None
grouped_limits_for_bucket(bucket) ==
    IF bucket = "Pre-1980" THEN {20}
    ELSE IF bucket = "Unparseable" THEN {}
    ELSE {150}

\* lines 133-137: int(value), 0 when it raises; a text of digits around
\* which spaces may stand is read, any other text raises
numeric_views(value) ==
    LET stripped == StripText(value)
    IN  IF stripped # <<>> /\ AllDigits(stripped) THEN IntOfDigits(stripped) ELSE 0

\* line 161
bucket_order ==
    <<"Pre-1980", "1980-1989", "1990-1999", "2000-2009", "2010-2019",
      "2020-2029", "Unparseable">>

\* lines 154-158: the rows of a bucket, in the order of the file
BucketRows(rows, bucket) ==
    SelectSeq(rows, LAMBDA row :
                  year_bucket_name(parse_category_year(row.category)) = bucket)

\* key = lambda r: (-numeric_views(r.get("yearly_views") or "0"), title.lower()),
\* the views kept positive
GroupedKey(row) == <<numeric_views(row.yearly_views), Lower(row.title)>>

\* key a < key b
GroupedKeyLess(a, b) ==
    \/ a[1] > b[1]
    \/ a[1] = b[1] /\ LexLess(a[2], b[2])

\* line 169, bucket_rows.sort(key=...): the row at index i goes behind the
\* rows of a lesser key and the earlier rows of an equal key (stable)
GroupedSorted(seq) ==
    LET n == Len(seq)
        key == SubSeq([i \in 1..n |-> GroupedKey(seq[i])], 1, n)
        place == SubSeq([i \in 1..n |->
                            1 + Cardinality({j \in 1..n :
                                    \/ GroupedKeyLess(key[j], key[i])
                                    \/ j < i /\ ~GroupedKeyLess(key[i], key[j])})],
                        1, n)
    IN  SubSeq([p \in 1..n |-> seq[CHOOSE i \in 1..n : place[i] = p]], 1, n)

\* lines 172-174: bucket_rows[:limit] unless the limit is None
Limited(bucket_rows, limit) ==
    IF limit = {} THEN bucket_rows
    ELSE LET n == CHOOSE l \in limit : TRUE
         IN  SubSeq(bucket_rows, 1, IF Len(bucket_rows) < n THEN Len(bucket_rows) ELSE n)

\* lines 180-193: the table rows of a bucket, a row without a title left out
TableRows(bucket_rows) ==
    LET titled == SelectSeq(bucket_rows, LAMBDA row : StripText(row.title) # <<>>)
    IN  [i \in 1..Len(titled) |->
            <<"row", StripText(titled[i].rank), StripText(titled[i].yearly_views),
              StripText(titled[i].title)>>]

\* main 293-299, render_grouped_section 149-158: the CSV is read, the section
\* is headed and the rows are put in their buckets
ConvertStart ==
    /\ cv_pc = "start"
    /\ lines' = <<<<"==", "section_title">>>>
    /\ buckets' = [i \in 1..Len(bucket_order) |-> BucketRows(cv_rows, bucket_order[i])]
    /\ bucket_index' = 1
    /\ cv_pc' = "buckets"
    /\ UNCHANGED <<cv_rows, output_file>>
    /\ UNCHANGED <<extractVars, metaVars, assembleVars, mainVars>>
    /\ UNCHANGED <<wikiVars, crawlVars, membersVars, httpVars>>

\* lines 163-196: one turn of the loop over bucket_order
RenderBucket ==
    /\ cv_pc = "buckets"
    /\ bucket_index <= Len(bucket_order)
    /\ LET bucket == bucket_order[bucket_index]
           bucket_rows == buckets[bucket_index]
           shown == Limited(GroupedSorted(bucket_rows),
                            grouped_limits_for_bucket(bucket))
       IN  lines' = IF bucket_rows = <<>> THEN lines
                    ELSE lines \o <<<<"===", bucket>>, <<"header", "caption">>>>
                               \o TableRows(shown) \o <<<<"|}">>, <<"">>>>
    /\ bucket_index' = bucket_index + 1
    /\ UNCHANGED <<cv_pc, cv_rows, buckets, output_file>>
    /\ UNCHANGED <<extractVars, metaVars, assembleVars, mainVars>>
    /\ UNCHANGED <<wikiVars, crawlVars, membersVars, httpVars>>

\* main 315-318: the lines are written to the output path
ConvertWrite ==
    /\ cv_pc = "buckets"
    /\ bucket_index > Len(bucket_order)
    /\ output_file' = {lines}
    /\ cv_pc' = "done"
    /\ UNCHANGED <<cv_rows, buckets, bucket_index, lines>>
    /\ UNCHANGED <<extractVars, metaVars, assembleVars, mainVars>>
    /\ UNCHANGED <<wikiVars, crawlVars, membersVars, httpVars>>

----------------------------------------------------------------------------
(* Initial states. Each specification runs one function; the variables of  *)
(* the others rest.                                                        *)

SetSum(f) ==
    LET RECURSIVE Sum(_)
        Sum(S) == IF S = {} THEN 0
                  ELSE LET x == CHOOSE y \in S : TRUE
                       IN  Cardinality(f[x]) + Sum(S \ {x})
    IN  Sum(DOMAIN f)

RootName == CatNames[1]
NoTitle == <<>>

WikiRests ==
    /\ subcatsOf = [c \in Cats |-> {}]
    /\ pagesOf = [c \in Cats |-> {}]

CrawlRests ==
    /\ pc = "idle"
    /\ root_category = NoTitle
    /\ max_depth = 0
    /\ exclude_arg = {}
    /\ exclude = {}
    /\ queue = <<>>
    /\ visited_categories = {}
    /\ articles = {}
    /\ category_title = NoTitle
    /\ depth = 0
    /\ visit_log = <<>>
    /\ enqueue_log = <<>>

MembersRests ==
    /\ call_log = <<>>
    /\ fm_pc = "idle"
    /\ cmtitle = NoTitle
    /\ member_type = "page"
    /\ members = <<>>
    /\ continue_token = {}
    /\ fm_requests = <<>>
    /\ fm_responses = <<>>

HttpRests ==
    /\ h_fn = "none"
    /\ h_pc = "idle"
    /\ attempt = 0
    /\ backoff_seconds = FirstBackoff
    /\ response = {}
    /\ h_payload = {}
    /\ h_log = <<>>
    /\ h_result = NoResult

ExtractRests ==
    /\ x_fn = "none"
    /\ x_pc = "idle"
    /\ categories = <<>>
    /\ quality = {}
    /\ wikiprojects = <<>>

MetaRests ==
    /\ m_pc = "idle"
    /\ m_title = NoTitle
    /\ page_data = {}
    /\ m_pageid = {}
    /\ talk_page = {}
    /\ m_requests = <<>>
    /\ m_result = NoResult

AssembleRests ==
    /\ script = "none"
    /\ a_pc = "idle"
    /\ write_intermediate = FALSE
    /\ article_refs = <<>>
    /\ pageview_totals = <<>>
    /\ metadata_records = <<>>
    /\ metadata_by_pageid = {}
    /\ rank = 0
    /\ a_exit = "none"
    /\ combined_file = {}
    /\ views_file = {}
    /\ meta_file = {}
    /\ opened = <<>>
    /\ fetch_log = <<>>
    /\ read_log = <<>>

MainRests == exclude_option = <<>>

ConvertRests ==
    /\ cv_pc = "idle"
    /\ cv_rows = <<>>
    /\ buckets = <<>>
    /\ bucket_index = 0
    /\ lines = <<>>
    /\ output_file = {}

EnrichRests ==
    ExtractRests /\ MetaRests /\ AssembleRests /\ MainRests /\ ConvertRests

----------------------------------------------------------------------------
(* Spec: crawl_category over one wiki: every category graph and page       *)
(* layout within the bounds, the root given with or without its prefix.    *)
(* The root is the first category: the graphs are closed under renaming.   *)

Init ==
    /\ subcatsOf \in {g \in [Cats -> SUBSET Cats] : SetSum(g) <= MaxEdges}
    /\ pagesOf \in {g \in [Cats -> SUBSET Pages] : SetSum(g) <= MaxMemberships}
    /\ root_category \in {<<RootName>>, <<Prefix, RootName>>}
    /\ max_depth \in 0..MaxDepth
    /\ exclude_arg \in
          {{}} \cup {{s} : s \in {x \in SUBSET Cats : Cardinality(x) <= MaxExcluded}}
    /\ pc = "start"
    /\ exclude = {}
    /\ queue = <<>>
    /\ visited_categories = {}
    /\ articles = {}
    /\ category_title = NoTitle
    /\ depth = 0
    /\ visit_log = <<>>
    /\ enqueue_log = <<>>
    /\ MembersRests
    /\ HttpRests
    /\ EnrichRests

Next ==
    \/ Begin
    \/ DequeueVisited
    \/ DequeueNew
    \/ ListingRequest
    \/ ListingRaises
    \/ RecordPages
    \/ EnqueueSubcats
    \/ Return

Spec == Init /\ [][Next]_vars

\* the loop of crawl_category runs on: no step that can be taken is put off
\* for ever
FairSpec == Spec /\ WF_vars(Next)

----------------------------------------------------------------------------
(* MembersSpec: one call of fetch_category_members against an upstream     *)
(* that answers every request with any members and any continuation token, *)
(* and with no token at the latest in its MaxResponses-th answer.          *)

MaxResponses == 3

Tokens == {{}, {""}, {"c1"}, {"c2"}}
Chunks == {<<>>, <<PageItem(1)>>, <<PageItem(2), PageItem(1)>>}
ListingPayloads == [categorymembers : Chunks, continue : Tokens]

MembersBegin ==
    /\ fm_pc = "idle"
    /\ call_log = <<>>
    /\ \E title \in {<<"Sub">>, <<Prefix, "Sub">>}, type \in {"page", "subcat"} :
          MembersCall(title, type)
    /\ UNCHANGED <<enrichVars, wikiVars, crawlVars, httpVars>>

MembersTurn ==
    /\ \E payload \in ListingPayloads :
          /\ Len(fm_responses) + 1 < MaxResponses \/ payload.continue \in {{}, {""}}
          /\ MembersRequest(payload)
    /\ UNCHANGED <<enrichVars, wikiVars, crawlVars, httpVars>>

MembersFails ==
    /\ MembersRaise
    /\ UNCHANGED <<enrichVars, wikiVars, crawlVars, httpVars>>

MembersReturn ==
    /\ fm_pc = "return"
    /\ MembersIdle
    /\ UNCHANGED <<enrichVars, wikiVars, crawlVars, httpVars>>

MembersInit ==
    WikiRests /\ CrawlRests /\ MembersRests /\ HttpRests /\ EnrichRests

MembersNext == MembersBegin \/ MembersTurn \/ MembersFails \/ MembersReturn

MembersSpec == MembersInit /\ [][MembersNext]_vars

----------------------------------------------------------------------------
(* HttpSpec: one call of mw_get or of get_yearly_total_views against an    *)
(* upstream that answers every request with any status and body, or not at *)
(* all.                                                                    *)

HttpInit ==
    /\ WikiRests /\ CrawlRests /\ MembersRests /\ EnrichRests
    /\ h_fn \in {"mw_get", "get_yearly_total_views"}
    /\ h_pc = "loop"
    /\ attempt = 0
    /\ backoff_seconds = FirstBackoff
    /\ response = {}
    /\ h_payload = {}
    /\ h_log = <<>>
    /\ h_result = NoResult

HttpNext ==
    \/ MwGetAttempt
    \/ MwGetNoResponse
    \/ MwGetExhausted
    \/ YearlyAttempt
    \/ YearlyNoResponse
    \/ YearlyExhausted

HttpSpec == HttpInit /\ [][HttpNext]_vars

----------------------------------------------------------------------------
(* ExtractSpec: one call of extract_quality or of extract_wikiprojects on  *)
(* any list of at most MaxCategories talk-page categories.                 *)

MaxCategories == 3

Category(title) == [title |-> {title}]

GradeCategories ==
    {Category(<<"Category:", g, "-Class", " articles">>) : g \in PatternGrades}

TalkCategories ==
    GradeCategories \cup
    { Category(<<"Category:", "A", "-Class">>),
      Category(<<"Category:", "FA", "-Class", "ic articles">>),
      Category(<<"Category:", "fa", "-Class", " articles">>),
      Category(<<"FA", "-Class", " articles">>),
      Category(<<"Category:", "WikiProject ", "Zoo", " articles">>),
      Category(<<"Category:", "WikiProject ", "apes", " articles">>),
      Category(<<"Category:", "WikiProject ", "Apes", " articles", " articles">>),
      Category(<<"Category:", "WikiProject ", " articles">>),
      [title |-> {}] }

ExtractInit ==
    /\ WikiRests /\ CrawlRests /\ MembersRests /\ HttpRests /\ MetaRests
    /\ AssembleRests /\ MainRests /\ ConvertRests
    /\ x_fn \in {"extract_quality", "extract_wikiprojects"}
    /\ x_pc = "call"
    /\ categories \in UNION {[1..n -> TalkCategories] : n \in 0..MaxCategories}
    /\ quality = {}
    /\ wikiprojects = <<>>

ExtractNext == ExtractQuality \/ ExtractWikiprojects

ExtractSpec == ExtractInit /\ [][ExtractNext]_vars

----------------------------------------------------------------------------
(* MetaSpec: one call of fetch_article_meta for a title, the upstream      *)
(* answering with any page entry (of a page that exists, or of a missing   *)
(* page: no page id) and any talk page.                                    *)

ArticleTitles == {<<"Sample">>, <<"Sample", " ", "Page">>}

Extracts == {{}, {<<>>}, {<<" ", "w", " ", "w", "w", " ">>}}
Revisions == {{}, {<<>>},
              {<<[revid |-> 5, timestamp |-> [date |-> "2024-01-02", time |-> "03:04:05"]]>>},
              {<<[revid |-> 0, timestamp |-> [date |-> "2024-01-02", time |-> "03:04:05"]]>>}}
PageProps == {{}, {[wikibase_item |-> {}, shortdesc |-> {}]},
              {[wikibase_item |-> {"Q1"}, shortdesc |-> {"a sample"}]}}

PageEntries(t) ==
    [pageid : {{}, {7}}, title : {{}, {t}}, extract : Extracts,
     revisions : Revisions, pageprops : PageProps, length : {{}, {120}}]

TalkLists ==
    { <<>>,
      <<Category(<<"Category:", "GA", "-Class", " articles">>),
        Category(<<"Category:", "FA", "-Class", " articles">>)>>,
      <<Category(<<"Category:", "WikiProject ", "apes", " articles">>),
        Category(<<"Category:", "Stub", "-Class", " articles">>),
        Category(<<"Category:", "WikiProject ", "Zoo", " articles">>)>> }

TalkEntries == [categories : {{}} \cup {{l} : l \in TalkLists}]

MetaInit ==
    /\ WikiRests /\ CrawlRests /\ MembersRests /\ HttpRests /\ ExtractRests
    /\ AssembleRests /\ MainRests /\ ConvertRests
    /\ m_pc = "article"
    /\ m_title \in ArticleTitles
    /\ page_data = {}
    /\ m_pageid = {}
    /\ talk_page = {}
    /\ m_requests = <<>>
    /\ m_result = NoResult

MetaNext ==
    \/ \E entry \in PageEntries(m_title) : ArticleStep([pages |-> <<entry>>])
    \/ ArticleStep([pages |-> <<>>])
    \/ \E exc \in MwGetErrors : MetaRequestRaises(exc)
    \/ \E entry \in TalkEntries : TalkStep([pages |-> <<entry>>])
    \/ TalkStep([pages |-> <<>>])

MetaSpec == MetaInit /\ [][MetaNext]_vars

----------------------------------------------------------------------------
(* AssembleSpec: one run of fetch_yearly_views_and_metadata over any list  *)
(* of at most MaxArticles article refs, every fetch returning any value or *)
(* raising, or one run of join_views_with_metadata over any views file and *)
(* metadata file of at most MaxRows rows each; the output path exists or   *)
(* not.                                                                    *)

MaxArticles == 3

\* the titles "a", "B", "b"
RefTitles == {<<97>>, <<66>>, <<98>>}

ArticleRefs ==
    UNION {{refs \in [1..n -> [pageid : 1..n, title : RefTitles, category : {"Sample"}]] :
               \A i \in 1..n : refs[i].pageid = i} : n \in 0..MaxArticles}

\* what get_yearly_total_views returns
ViewCounts == {0, 15}

MaxRows == 3
MaxMetaRows == 2

RowTitles == <<"t1", "t2", "t3", "t4", "t5">>

\* the rows of a views CSV: the page id absent, a number, or not a number
ViewsRows(i) ==
    [pageid : {{}, {"1"}, {"02"}, {"x"}}, title : {{RowTitles[i]}},
     category : {{"Sample"}}, yearly_views : {{"15"}}]

ViewsFiles ==
    UNION {{rows \in [1..n -> UNION {ViewsRows(i) : i \in 1..n}] :
               \A i \in 1..n : rows[i] \in ViewsRows(i)} : n \in 0..MaxRows}

MetaRows ==
    { [pageid |-> {"1"}, shortdesc |-> {"a sample"}, word_count |-> {"2"},
       quality |-> {"GA"}],
      [pageid |-> {"2"}, shortdesc |-> {"a sample"}, word_count |-> {"2"},
       quality |-> {"GA"}],
      [pageid |-> {"02"}, shortdesc |-> {""}, word_count |-> {}, quality |-> {""}],
      [pageid |-> {"x"}, shortdesc |-> {"a sample"}, word_count |-> {"2"},
       quality |-> {"GA"}] }

MetaFiles == UNION {[1..n -> MetaRows] : n \in 0..MaxMetaRows}

AssembleInit ==
    /\ WikiRests /\ CrawlRests /\ MembersRests /\ HttpRests
    /\ ExtractRests /\ MetaRests /\ MainRests /\ ConvertRests
    /\ a_pc = "start"
    /\ pageview_totals = <<>>
    /\ metadata_records = <<>>
    /\ metadata_by_pageid = {}
    /\ rank = 0
    /\ a_exit = "none"
    /\ combined_file \in {{}, {<<>>}}
    /\ opened = <<>>
    /\ fetch_log = <<>>
    /\ read_log = <<>>
    /\ \/ /\ script = Pipeline
          /\ write_intermediate \in BOOLEAN
          /\ article_refs \in ArticleRefs
          /\ views_file = {}
          /\ meta_file = {}
       \/ /\ script = Join
          /\ write_intermediate = FALSE
          /\ article_refs = <<>>
          /\ views_file \in {{rows} : rows \in ViewsFiles}
          /\ meta_file \in {{rows} : rows \in MetaFiles}

AssembleNext ==
    \/ PipelineStart
    \/ \E total_views \in ViewCounts : ViewsFetched(total_views)
    \/ FetchRaises
    \/ PersistViews
    \/ \E kind \in MetaKinds : MetaFetched(kind)
    \/ PersistMeta
    \/ Assemble
    \/ JoinStart
    \/ JoinReadMeta
    \/ JoinRow
    \/ JoinEnd

AssembleSpec == AssembleInit /\ [][AssembleNext]_vars

----------------------------------------------------------------------------
(* MainSpec: fetch_category_articles over one wiki, with any root, depth   *)
(* and --exclude option of at most MaxItems items, each naming a category  *)
(* with or without its prefix, or blank.                                   *)

MaxItems == 2

ExcludeItems == {<<>>, <<" ", CatNames[2]>>, <<Prefix, CatNames[2]>>}

ExcludeOptions == UNION {[1..n -> ExcludeItems] : n \in 1..MaxItems}

MainInit ==
    /\ subcatsOf \in {g \in [Cats -> SUBSET Cats] : SetSum(g) <= MaxEdges}
    /\ pagesOf \in {g \in [Cats -> SUBSET Pages] : SetSum(g) <= MaxMemberships}
    /\ root_category \in {<<RootName>>, <<Prefix, RootName>>}
    /\ max_depth \in 0..MaxDepth
    /\ exclude_option \in ExcludeOptions
    /\ exclude_arg = {}
    /\ pc = "main"
    /\ exclude = {}
    /\ queue = <<>>
    /\ visited_categories = {}
    /\ articles = {}
    /\ category_title = NoTitle
    /\ depth = 0
    /\ visit_log = <<>>
    /\ enqueue_log = <<>>
    /\ MembersRests
    /\ HttpRests
    /\ ExtractRests /\ MetaRests /\ AssembleRests /\ ConvertRests

MainNext == MainCall \/ Next

MainSpec == MainInit /\ [][MainNext]_vars

----------------------------------------------------------------------------
(* ConvertSpec: convert_csv_to_mw_table --group-by-category-year over one  *)
(* CSV. The file holds rows of the years before 1980, rows of one decade   *)
(* and rows whose category gives no year; of each kind none, as many as a  *)
(* limit of the code, or up to MaxOver more. The views rise, fall or       *)
(* repeat along the file, and a title may be blank.                        *)

MaxOver == 1

RowCounts(limit) == {0} \cup {limit + over : over \in 0..MaxOver}

\* str(n)
RECURSIVE Digits(_)
Digits(n) ==
    IF n < 10 THEN <<48 + n>> ELSE Append(Digits(n \div 10), 48 + (n % 10))

\* "1979 g"
CategoryOfYear(year) == Digits(year) \o <<32, 103>>

\* categories of the years before 1980, one with a space before it
PreCategories == <<CategoryOfYear(1000), <<32>> \o CategoryOfYear(1979)>>

\* the categories of the first and the last year of each decade bucket
DecadeCategories ==
    <<<<CategoryOfYear(1980), CategoryOfYear(1989)>>,
      <<CategoryOfYear(1990), CategoryOfYear(1999)>>,
      <<CategoryOfYear(2000), CategoryOfYear(2009)>>,
      <<CategoryOfYear(2010), CategoryOfYear(2019)>>,
      <<CategoryOfYear(2020), CategoryOfYear(2100)>>>>

\* "", "g", "g 1975", "999 g", "0999 g", "2101 g"
NoYearCategories ==
    <<<<>>, <<103>>, <<103, 32>> \o Digits(1975), CategoryOfYear(999),
      <<48>> \o CategoryOfYear(999), CategoryOfYear(2101)>>

Orders == {"rising", "falling", "repeating"}

\* the yearly_views of the i-th of n rows: a number, at times one with a
\* space before it, or a text that is no number
ViewsText(i, n, order) ==
    CASE order = "rising" -> Digits(i)
      [] order = "falling" -> <<32>> \o Digits(n + 1 - i)
      [] order = "repeating" -> IF i % 3 = 0 THEN <<120>> ELSE Digits(i % 3)

\* n rows of the categories given, numbered from first + 1
Block(n, first, cats, order, blank) ==
    [i \in 1..n |->
        [rank |-> Digits(first + i),
         title |-> IF blank /\ i = 2 THEN <<32>>
                   ELSE <<IF i % 2 = 0 THEN 84 ELSE 116>> \o Digits(first + i),
         category |-> cats[(i % Len(cats)) + 1],
         yearly_views |-> ViewsText(i, n, order)]]

CsvFile(n_pre, n_decade, n_none, decade, order, blank) ==
    Block(n_none, 0, NoYearCategories, order, blank)
        \o Block(n_decade, n_none, DecadeCategories[decade], order, blank)
        \o Block(n_pre, n_none + n_decade, PreCategories, order, blank)

CsvFiles ==
    {CsvFile(n_pre, n_decade, n_none, decade, order, blank) :
        n_pre \in RowCounts(20), n_decade \in RowCounts(150),
        n_none \in RowCounts(150), decade \in 1..Len(DecadeCategories),
        order \in Orders, blank \in BOOLEAN}

ConvertInit ==
    /\ WikiRests /\ CrawlRests /\ MembersRests /\ HttpRests
    /\ ExtractRests /\ MetaRests /\ AssembleRests /\ MainRests
    /\ cv_pc = "start"
    /\ cv_rows \in CsvFiles
    /\ buckets = <<>>
    /\ bucket_index = 0
    /\ lines = <<>>
    /\ output_file = {}

ConvertNext ==
    \/ ConvertStart
    \/ RenderBucket
    \/ ConvertWrite

ConvertSpec == ConvertInit /\ [][ConvertNext]_vars

----------------------------------------------------------------------------
(* What the claims are stated with: the wiki's graph, the logs.            *)

Titles(log) == [i \in 1..Len(log) |-> log[i][1]]
NoDoubles(seq) == \A i, j \in 1..Len(seq) : seq[i] = seq[j] => i = j
Keys(d) == {e.pageid : e \in d}
CallsOf(type) == {i \in 1..Len(call_log) : call_log[i][2] = type}

\* the categories reachable from the root by at most k subcategory edges,
\* no category after the root being excluded
RECURSIVE ReachWithin(_)
ReachWithin(k) ==
    IF k = 0 THEN {root_category}
    ELSE LET near == ReachWithin(k - 1)
         IN  near \cup {s \in Cats : s \notin exclude
                                     /\ \E c \in near \cap Cats : s \in subcatsOf[c]}

\* the length of the shortest such path to c
Distance(c) == CHOOSE k \in 0..NumCats :
                  c \in ReachWithin(k) /\ \A j \in 0..(k - 1) : c \notin ReachWithin(j)

\* the visits whose page members have been stored
StoredVisits ==
    IF pc = "pages" \/ (pc = "raised" /\ member_type = "page")
    THEN 1..(Len(visit_log) - 1) ELSE 1..Len(visit_log)

VisitsWithPage(p) ==
    {i \in StoredVisits : visit_log[i][1] \in Cats /\ p \in pagesOf[visit_log[i][1]]}

Max(S) == CHOOSE x \in S : \A y \in S : y <= x

RECURSIVE Concat(_)
Concat(seqs) == IF seqs = <<>> THEN <<>> ELSE Head(seqs) \o Concat(Tail(seqs))

NonEmptyToken(tok) == tok # {} /\ tok # {""}

GetsOf(log) == SelectSeq(log, LAMBDA ev : ev[1] = "get")
SleepsOf(log) == SelectSeq(log, LAMBDA ev : ev[1] = "sleep")

\* a status on which the function called goes on to sleep and retry
NonSuccess(fn, status) ==
    IF fn = "mw_get" THEN status # 200
    ELSE status # 404 /\ status >= 400 /\ status < 600

----------------------------------------------------------------------------
(* The claims. *)

\* C1: in a crawl over any category graph, each category title is processed
\* at most once and each member listing (pages, subcategories) of a category
\* is called for at most once: a dequeued title that was visited before
\* causes no listing call.
C1_EachCategoryOnce ==
    /\ NoDoubles(Titles(visit_log))
    /\ NoDoubles(call_log)
    /\ Cardinality(CallsOf("page")) = Len(visit_log)
    /\ \A i \in 1..Len(call_log) : call_log[i][1] \in visited_categories

\* C1 witness: a crawl has returned in which a title was enqueued twice, by
\* two categories that list it, and so dequeued once after its visit.
C1_Witness ==
    /\ pc = "done"
    /\ \E i, j \in 1..Len(enqueue_log) :
          i < j /\ enqueue_log[i][1] = enqueue_log[j][1]
    /\ Len(enqueue_log) + 1 > Len(visit_log)

\* C2: for every category graph and every max_depth >= 0 the crawl ends:
\* it returns with its queue empty, unless a member listing raised.
C2_Terminates == <>((pc = "done" /\ queue = <<>>) \/ pc = "raised")

\* C2 witness: a crawl over a graph with the cycle root -> c -> root has
\* returned after asking for the subcategories of c.
C2_Witness ==
    /\ pc = "done"
    /\ \E c \in Cats \ {root_category} :
          /\ c \in subcatsOf[root_category]
          /\ root_category \in subcatsOf[c]
          /\ \E i \in 1..Len(call_log) : call_log[i] = <<c, "subcat">>

\* C3: a title of the exclusion set is never appended to the queue, is in
\* the queue only as the root, and is visited only as the root.
C3_ExcludedNeverEnqueued ==
    pc \notin {"idle", "start"} =>
        /\ \A i \in 1..Len(enqueue_log) : enqueue_log[i][1] \notin exclude
        /\ \A i \in 1..Len(queue) :
              queue[i][1] \in exclude => queue[i] = <<root_category, 0>>
        /\ visited_categories \cap exclude \subseteq {root_category}

\* C3 witness: a crawl has returned in which two visited categories, both
\* asked for their subcategories, list the same excluded category.
C3_Witness ==
    /\ pc = "done"
    /\ \E x \in exclude \ {root_category}, c1, c2 \in visited_categories :
          /\ c1 # c2
          /\ x \in subcatsOf[c1] /\ x \in subcatsOf[c2]
          /\ \E i, j \in 1..Len(call_log) :
                call_log[i] = <<c1, "subcat">> /\ call_log[j] = <<c2, "subcat">>

\* C4: with max_depth = 0 no subcategory listing is called for and nothing
\* is enqueued, and the crawl returns exactly the page members of the root,
\* each with the root as its source, having visited the root alone.
C4_DepthZeroRootOnly ==
    (max_depth = 0 /\ pc \notin {"idle", "start"}) =>
        /\ CallsOf("subcat") = {}
        /\ enqueue_log = <<>>
        /\ pc = "done" =>
              /\ visited_categories = {root_category}
              /\ articles = {[pageid |-> p, title |-> PageTitle(p),
                              source |-> <<RootName>>] : p \in pagesOf[root_category]}

\* C4 witness: a crawl with max_depth = 0 has returned from a root that has
\* page members and a subcategory with page members of its own.
C4_Witness ==
    /\ pc = "done"
    /\ max_depth = 0
    /\ pagesOf[root_category] # {}
    /\ \E c \in subcatsOf[root_category] \ {root_category} :
          pagesOf[c] \ pagesOf[root_category] # {}

\* C5: the crawl returns the depth-bounded reachable set: the categories
\* visited are those reachable from the root by at most max_depth
\* subcategory edges through categories not excluded, the keys of articles
\* are the page ids of their page members, and each category is visited at
\* the depth of its shortest path.
C5_ReturnsReachableSet ==
    pc = "done" =>
        /\ visited_categories = ReachWithin(max_depth)
        /\ Keys(articles) = UNION {pagesOf[c] : c \in ReachWithin(max_depth) \cap Cats}
        /\ \A i \in 1..Len(visit_log) : visit_log[i][2] = Distance(visit_log[i][1])

\* C5 witness: a crawl of depth 2 has returned over a graph in which a
\* category with a page is a subcategory of the root and of another
\* subcategory of the root (a path of one edge and a path of two).
C5_Witness ==
    /\ pc = "done"
    /\ max_depth = 2
    /\ \E b, c \in subcatsOf[root_category] \ {root_category} :
          /\ b # c
          /\ c \in subcatsOf[b]
          /\ pagesOf[c] # {}
          /\ <<c, 1>> \in {visit_log[i] : i \in 1..Len(visit_log)}

\* C6: the root is crawled whatever the exclusion set holds: when the crawl
\* returns the root has been visited and its page members are in the result.
C6_RootAlwaysCrawled ==
    pc = "done" =>
        /\ root_category \in visited_categories
        /\ pagesOf[root_category] \subseteq Keys(articles)

\* C6 witness: a crawl whose exclusion set holds the root has returned, the
\* root having page members.
C6_Witness ==
    /\ pc = "done"
    /\ root_category \in exclude
    /\ pagesOf[root_category] # {}
    /\ <<RootName>> \in {e.source : e \in articles}

\* C7: at every point of the crawl articles holds one entry per page id, for
\* the page ids of the categories whose page members have been stored, and
\* the entry of a page id carries the source of the category visited last
\* among those that list it.
C7_LastWriteWins ==
    /\ \A e1, e2 \in articles : e1.pageid = e2.pageid => e1 = e2
    /\ pc \notin {"idle", "start"} =>
          /\ Keys(articles) = {p \in Pages : VisitsWithPage(p) # {}}
          /\ \A e \in articles :
                /\ e.title = PageTitle(e.pageid)
                /\ e.source = RemovePrefix(visit_log[Max(VisitsWithPage(e.pageid))][1])

\* C7 witness: a crawl has returned in which a page is a member of two
\* visited categories and is stored with the source of the later one.
C7_Witness ==
    /\ pc = "done"
    /\ \E e \in articles : \E i, j \in VisitsWithPage(e.pageid) :
          i < j /\ e.source = RemovePrefix(visit_log[j][1])

\* C8: fetch_category_members sends its first request without cmcontinue and
\* every later request with the token of the response before it; it goes on
\* exactly while the last response carries a non-empty token, and the list it
\* holds, and returns, is the concatenation in order of the members of the
\* responses received.
C8_FollowsCursor ==
    LET n == Len(fm_responses)
    IN  /\ fm_requests # <<>> => fm_requests[1].cmcontinue = {}
        /\ \A k \in 1..(Len(fm_requests) - 1) :
              /\ k <= n
              /\ NonEmptyToken(fm_responses[k].continue)
              /\ fm_requests[k + 1].cmcontinue = fm_responses[k].continue
        /\ \A k \in 1..Len(fm_requests) :
              fm_requests[k].cmtitle = cmtitle /\ fm_requests[k].cmtype = member_type
        /\ members = Concat([k \in 1..n |-> fm_responses[k].categorymembers])
        /\ fm_pc = "request" =>
              /\ Len(fm_requests) = n
              /\ n > 0 => NonEmptyToken(fm_responses[n].continue)
        /\ fm_pc = "return" =>
              /\ Len(fm_requests) = n
              /\ n > 0
              /\ ~NonEmptyToken(fm_responses[n].continue)

\* C8 witness: a call has returned after three requests, the second and the
\* third carrying different tokens, with the members of all three responses.
C8_Witness ==
    /\ fm_pc = "return"
    /\ Len(fm_requests) = 3
    /\ fm_requests[2].cmcontinue # fm_requests[3].cmcontinue
    /\ Len(members) >= 3

\* C9: one call of mw_get or get_yearly_total_views sends at most 6
\* requests, and a call whose 6 responses were all non-success does not
\* return: it ends raising an error.
C9_AtMostSixRequests ==
    LET gets == GetsOf(h_log)
    IN  /\ Len(gets) <= 6
        /\ (Len(gets) = 6 /\ \A k \in 1..6 : NonSuccess(h_fn, gets[k][2])) =>
              /\ h_pc \in {"loop", "raise"}
              /\ h_pc = "loop" => attempt = 6
              /\ h_pc = "raise" => h_result.kind = "raise"

\* C9 witness: a call has raised after 6 responses, none a success.
C9_Witness ==
    /\ h_pc = "raise"
    /\ Len(GetsOf(h_log)) = 6
    /\ \A k \in 1..6 : NonSuccess(h_fn, GetsOf(h_log)[k][2])
    /\ h_result.exc = "HTTPError"

\* C10: the k-th sleep of one call lasts min(2^(k-1), 30) seconds.
C10_BackoffSchedule ==
    LET sleeps == SleepsOf(h_log)
    IN  \A k \in 1..Len(sleeps) :
           sleeps[k][2] = (IF 2^(k - 1) < 30 THEN 2^(k - 1) ELSE 30)

\* C10 witness: a call has slept for 1, 2, 4, 8, 16 and 30 seconds.
C10_Witness ==
    LET sleeps == SleepsOf(h_log)
    IN  [k \in 1..Len(sleeps) |-> sleeps[k][2]] = <<1, 2, 4, 8, 16, 30>>

\* the payload parsed last (response.json())
LastPayload == CHOOSE p \in h_payload : TRUE

\* the status of the request sent last
LastStatus == GetsOf(h_log)[Len(GetsOf(h_log))][2]

RECURSIVE TotalOf(_, _)
TotalOf(items, k) ==
    IF k = 0 THEN 0
    ELSE TotalOf(items, k - 1)
            + (IF items[k] = {} THEN 0 ELSE CHOOSE v \in items[k] : TRUE)

\* C11: once mw_get has received a 200 response whose payload holds an error
\* field, the call has raised the payload's error; that response is the last
\* event of the call (no request and no sleep follows it) and the only 200.
C11_ErrorPayloadFailsAtOnce ==
    (h_fn = "mw_get" /\ h_payload # {} /\ LastPayload.error # {}) =>
        /\ h_pc = "raise"
        /\ h_result.kind = "raise"
        /\ h_result.exc = "RuntimeError(payload error)"
        /\ h_log[Len(h_log)] = <<"get", 200>>
        /\ \A k \in 1..(Len(h_log) - 1) : h_log[k] # <<"get", 200>>

\* C11 witness: mw_get has raised the payload's error on its sixth request,
\* after five failed attempts and five sleeps.
C11_Witness ==
    /\ h_fn = "mw_get"
    /\ h_result.exc = "RuntimeError(payload error)"
    /\ Len(GetsOf(h_log)) = 6
    /\ Len(SleepsOf(h_log)) = 5

\* C12: a 404 received by get_yearly_total_views is the last event of the
\* call (no request and no sleep follows it), and the call has returned 0.
C12_NotFoundReturnsZero ==
    h_fn = "get_yearly_total_views" =>
        \A k \in 1..Len(h_log) :
            h_log[k] = <<"get", 404>> =>
                /\ k = Len(h_log)
                /\ h_pc = "return"
                /\ h_result.kind = "return"
                /\ h_result.value = 0

\* C12 witness: get_yearly_total_views has returned on a 404 received as
\* its sixth response, after five failed attempts.
C12_Witness ==
    /\ h_fn = "get_yearly_total_views"
    /\ h_pc = "return"
    /\ Len(GetsOf(h_log)) = 6
    /\ LastStatus = 404
    /\ Len(SleepsOf(h_log)) = 5

\* C13: get_yearly_total_views, returning on a successful response, returns
\* the sum of the views of the items of the payload, an item without views
\* counting 0: 15 for the items [10, 5], 10 for [10, no views], 0 for no
\* items and for a payload without items.
C13_SumOfViews ==
    (h_fn = "get_yearly_total_views" /\ h_pc = "return" /\ LastStatus # 404) =>
        LET given == LastPayload.items
            items == IF given = {} THEN <<>> ELSE CHOOSE l \in given : TRUE
        IN  /\ h_result.value = TotalOf(items, Len(items))
            /\ given = {<<{10}, {5}>>} => h_result.value = 15
            /\ given = {<<{10}, {}>>} => h_result.value = 10
            /\ given \in {{}, {<<>>}} => h_result.value = 0

\* C13 witness: get_yearly_total_views has returned 15 for a 200 response
\* with the items [10, 5].
C13_Witness ==
    /\ h_fn = "get_yearly_total_views"
    /\ h_pc = "return"
    /\ LastStatus = 200
    /\ LastPayload.items = {<<{10}, {5}>>}
    /\ h_result.value = 15

\* the place of a grade in FA > FL > A > GA > B > C > Start > Stub > List
Precedence(g) ==
    CASE g = "FA" -> 1 [] g = "FL" -> 2 [] g = "A" -> 3 [] g = "GA" -> 4
      [] g = "B" -> 5 [] g = "C" -> 6 [] g = "Start" -> 7 [] g = "Stub" -> 8
      [] g = "List" -> 9

AllGrades == {"FA", "FL", "A", "GA", "B", "C", "Start", "Stub", "List"}

\* the category reads "Category:<g>-Class", at its end or before " articles"
Carries(category, g) ==
    /\ category.title # {}
    /\ \E t \in category.title :
          \/ t = <<"Category:", g, "-Class">>
          \/ t = <<"Category:", g, "-Class", " articles">>

GradesIn(cats) == {g \in AllGrades : \E i \in 1..Len(cats) : Carries(cats[i], g)}

Reversed(seq) == [i \in 1..Len(seq) |-> seq[Len(seq) + 1 - i]]

\* C20: extract_quality returns the grade of highest precedence among the
\* grades the categories carry, and no grade when they carry none; the
\* categories in reverse order, or each given twice, yield the same grade.
C20_HighestPrecedenceWins ==
    (x_fn = "extract_quality" /\ x_pc = "return") =>
        LET grades == GradesIn(categories)
        IN  /\ grades = {} => quality = {}
            /\ grades # {} =>
                  quality = {CHOOSE g \in grades :
                                \A o \in grades : Precedence(g) <= Precedence(o)}
            /\ extract_quality(Reversed(categories)) = quality
            /\ extract_quality(categories \o categories) = quality

\* C20 witness: extract_quality has returned the grade of a category that
\* comes after a category of a lower grade, a third category matching no grade.
C20_Witness ==
    /\ x_fn = "extract_quality"
    /\ x_pc = "return"
    /\ \E i, j, k \in 1..Len(categories), g, o \in AllGrades :
          /\ i < j
          /\ Carries(categories[i], o)
          /\ Carries(categories[j], g)
          /\ Precedence(g) < Precedence(o)
          /\ quality = {g}
          /\ \A h \in AllGrades : ~Carries(categories[k], h)

\* C20 witness of the other case: no category matches and no grade is returned.
C20_NoGrade ==
    /\ x_fn = "extract_quality"
    /\ x_pc = "return"
    /\ Len(categories) = MaxCategories
    /\ quality = {}

\* the page entry the first request was answered with is that of a missing
\* page: it carries no page id
MissingPage == page_data # {} /\ \A pd \in page_data : pd.pageid = {}

\* C14, as stated: for a title that resolves to no page the call fails with a
\* NotFoundError.
C14_AsStated ==
    MissingPage => (m_pc = "raise" /\ m_result.exc = "NotFoundError")

\* C14, amended: for a title that resolves to no page the call fails with a
\* KeyError, raised on reading the page id: the talk page is not requested.
C14_MissingPageKeyError ==
    MissingPage =>
        /\ m_pc = "raise"
        /\ m_result.kind = "raise"
        /\ m_result.exc = "KeyError"
        /\ m_requests = <<m_title>>
        /\ talk_page = {}

\* C14 witness: the call has failed on a page entry that has a title but no
\* page id.
C14_Witness ==
    /\ MissingPage
    /\ \E pd \in page_data : pd.title = {m_title}
    /\ m_pc = "raise"
    /\ Len(m_requests) = 1

\* C15, as stated: for a missing page the call returns a record and does not
\* raise.
C15_AsStated ==
    MissingPage => m_pc # "raise"

\* C15, amended: for a missing page the call raises and returns no record:
\* every record returned carries the page id and the title of the page entry
\* received, never a default.
C15_MissingPageRaises ==
    /\ MissingPage => m_result.kind = "raise"
    /\ m_result.kind = "return" =>
          \E pd \in page_data :
              /\ pd.pageid = {m_result.value.pageid}
              /\ pd.title = {m_result.value.title}
              /\ Len(m_requests) = 2

\* C15 witness: a call has raised for a missing page whose entry carries
\* nothing but its title.
C15_Witness ==
    /\ MissingPage
    /\ m_result.kind = "raise"
    /\ \E pd \in page_data :
          /\ pd.title # {}
          /\ pd.extract = {} /\ pd.revisions = {} /\ pd.pageprops = {}
          /\ pd.length = {}

\* the other case of C15: a record has been returned for a page that exists
C15_Returned ==
    /\ m_result.kind = "return"
    /\ m_result.value.word_count = 2
    /\ m_result.value.quality = {"Stub"}
    /\ m_result.value.wikiprojects = <<<<"Zoo">>, <<"apes">>>>

\* the rows of the combined file
Written == IF combined_file = {} THEN <<>> ELSE CHOOSE rows \in combined_file : TRUE

\* the run of the combined pipeline has ended on an error raised by a fetch
Aborted == script = Pipeline /\ a_exit = "raise"

\* C16, as stated: when the pageview or metadata fetch of an article raises,
\* the run ends without having written any file, the combined table and the
\* intermediate views and metadata files included.
C16_AsStated ==
    Aborted => (opened = <<>> /\ views_file = {} /\ meta_file = {} /\ combined_file = {})

\* C16, amended: when a fetch raises, the run ends at once without having
\* written the combined table or the intermediate metadata file; the
\* intermediate views file has been written only if it was asked for and the
\* failure is that of a metadata fetch, and then it holds the totals of all
\* the articles.
C16_NoCombinedTableOnError ==
    Aborted =>
        /\ a_pc = "exited"
        /\ combined_file = {}
        /\ meta_file = {}
        /\ opened \in {<<>>, <<"views">>}
        /\ opened = <<>> <=> views_file = {}
        /\ opened = <<"views">> =>
              /\ write_intermediate
              /\ Len(pageview_totals) = Len(article_refs)
              /\ views_file = {pageview_totals}
        /\ (write_intermediate /\ Len(pageview_totals) = Len(article_refs)) =>
              opened = <<"views">>

\* C16 witness: the metadata fetch of the second of three articles has
\* raised, the views file having been written.
C16_Witness ==
    /\ Aborted
    /\ Len(article_refs) = 3
    /\ Len(metadata_records) = 1
    /\ opened = <<"views">>

\* the other cases of C16: the pageview fetch of the second article raises;
\* the metadata fetch raises, no intermediate file having been asked for
C16_ViewsFetchRaised ==
    /\ Aborted
    /\ write_intermediate
    /\ Len(pageview_totals) = 1
    /\ Len(article_refs) = 3

C16_NoIntermediate ==
    /\ Aborted
    /\ ~write_intermediate
    /\ Len(metadata_records) = 2

\* C17, as stated: the ranks of the rows written are 1..N in order, N the
\* number of rows written, in the combined pipeline and in
\* join_views_with_metadata, rows skipped or not.
C17_RanksContiguous ==
    a_pc = "done" => \A i \in 1..Len(Written) : Written[i].rank = i

\* C17, in the combined pipeline alone: the ranks are 1..N.
C17_PipelineRanks ==
    (script = Pipeline /\ a_pc = "done") =>
        /\ Len(Written) = Len(article_refs)
        /\ \A i \in 1..Len(Written) : Written[i].rank = i

\* C17 in join_views_with_metadata: the rank of a row written is the place of
\* its views row in the views file, skipped rows counted.
C17_JoinRanksCountSkipped ==
    (script = Join /\ a_pc = "done") =>
        LET rows == CHOOSE r \in views_file : TRUE
        IN  \A i \in 1..Len(Written) :
                /\ Written[i].rank \in 1..Len(rows)
                /\ rows[Written[i].rank].title = {Written[i].title}
                /\ Written[i].rank >= i

\* a run of join_views_with_metadata that skipped the first views row and
\* wrote the second
C17_Skipped ==
    /\ script = Join
    /\ a_pc = "done"
    /\ Len(Written) = 1
    /\ Written[1].rank = 2

\* the title read without regard to case
CaseFolded(t) == [i \in 1..Len(t) |-> IF t[i] \in 65..90 THEN t[i] + 32 ELSE t[i]]

\* s comes before t in the order of strings
Before(s, t) ==
    \E k \in 1..(Len(t)) :
        /\ \A i \in 1..(k - 1) : i <= Len(s) /\ s[i] = t[i]
        /\ k > Len(s) \/ (k <= Len(s) /\ s[k] < t[k])

\* C18: the rows of the combined file of the pipeline are in the order of
\* yearly_views descending and, among rows of equal yearly_views, of title
\* ascending without regard to case; the rank of a row is its place, so rank
\* 1 is a row of the highest views.
C18_OrderedByViewsThenTitle ==
    (script = Pipeline /\ a_pc = "done") =>
        /\ \A i, j \in 1..Len(Written) :
              i < j =>
                  \/ Written[i].yearly_views > Written[j].yearly_views
                  \/ /\ Written[i].yearly_views = Written[j].yearly_views
                     /\ ~Before(CaseFolded(Written[j].title),
                                CaseFolded(Written[i].title))
        /\ \A i \in 1..Len(Written) :
              /\ Written[i].rank = i
              /\ Written[1].yearly_views >= Written[i].yearly_views

\* C18 witness: three articles given as "B", "a", "b" in that order, the
\* first two with equal views and the third with more, are written in the
\* order "b", "a", "B".
C18_Witness ==
    /\ script = Pipeline
    /\ a_pc = "done"
    /\ Len(article_refs) = 3
    /\ article_refs[1].title = <<66>>
    /\ article_refs[2].title = <<97>>
    /\ article_refs[3].title = <<98>>
    /\ Written[1].title = <<98>> /\ Written[1].yearly_views = 15
    /\ Written[2].title = <<97>> /\ Written[2].yearly_views = 0
    /\ Written[3].title = <<66>> /\ Written[3].yearly_views = 0

\* titles equal but for their case stay in the order given: "b" then "B"
C18_EqualKeysKeepOrder ==
    /\ script = Pipeline
    /\ a_pc = "done"
    /\ Len(article_refs) = 2
    /\ article_refs[1].title = <<98>>
    /\ article_refs[2].title = <<66>>
    /\ Written[1].title = <<98>> /\ Written[2].title = <<66>>
    /\ Written[1].yearly_views = Written[2].yearly_views

\* the views rows of the join that carry an integer page id, in file order
Identified ==
    SelectSeq(CHOOSE r \in views_file : TRUE,
              LAMBDA row : row.pageid \in {{"1"}, {"2"}, {"02"}})

\* the number the page id of a views row stands for
Number(field) == IF field = "1" THEN 1 ELSE 2

\* the last record of metadata_records with the page id, if any
LastMetaOf(pageid) ==
    LET at == {k \in 1..Len(metadata_records) : metadata_records[k].pageid = pageid}
    IN  IF at = {} THEN {} ELSE {metadata_records[Max(at)]}

\* the last row of the metadata file whose page id stands for the number
LastMetaRowOf(n) ==
    LET rows == CHOOSE r \in meta_file : TRUE
        at == {k \in 1..Len(rows) :
                  rows[k].pageid \in {{"1"}, {"2"}, {"02"}}
                  /\ \A f \in rows[k].pageid : Number(f) = n}
    IN  IF at = {} THEN {} ELSE {rows[Max(at)]}

\* the pipeline has written one row per article, with the id, title and
\* category of the article and the views of its total
PipelineRowPerTotal ==
    /\ Len(Written) = Len(article_refs)
    /\ Len(pageview_totals) = Len(article_refs)
    /\ \A a \in 1..Len(article_refs) :
          \E i \in 1..Len(Written) :
              /\ Written[i].pageid = article_refs[a].pageid
              /\ Written[i].title = article_refs[a].title
              /\ Written[i].category = article_refs[a].category
              /\ pageview_totals[i].pageid = Written[i].pageid
              /\ pageview_totals[i].yearly_views = Written[i].yearly_views
              /\ \A j \in 1..Len(Written) : Written[j].pageid = Written[i].pageid => j = i

\* the join has written one row per views row of an integer page id, in
\* file order, with the fields of that row
JoinRowPerTotal ==
    /\ Len(Written) = Len(Identified)
    /\ \A i \in 1..Len(Written) :
          /\ {Written[i].pageid} = Identified[i].pageid
          /\ {Written[i].title} = Identified[i].title
          /\ {Written[i].category} = Identified[i].category
          /\ {Written[i].yearly_views} = Identified[i].yearly_views

\* C19, as stated: one combined row per pageview total, with the id, title,
\* category and views of the total; a total without metadata has an empty
\* short description, the word count 0 and an empty quality.
C19_AsStated ==
    /\ (script = Pipeline /\ a_pc = "done") =>
          /\ PipelineRowPerTotal
          /\ \A i \in 1..Len(Written) :
                LastMetaOf(Written[i].pageid) = {} =>
                    /\ Written[i].shortdesc = ""
                    /\ Written[i].word_count = 0
                    /\ Written[i].quality = ""
    /\ (script = Join /\ a_pc = "done") =>
          /\ JoinRowPerTotal
          /\ \A i \in 1..Len(Written) :
                LastMetaRowOf(Number(Written[i].pageid)) = {} =>
                    /\ Written[i].shortdesc = ""
                    /\ Written[i].word_count = "0"
                    /\ Written[i].quality = ""

\* C19, amended: one combined row per pageview total (in the join: per views
\* row whose page id is an integer), with the id, title, category and views
\* of the total; a total without metadata has an empty short description and
\* an empty quality, and the word count 0 in the pipeline, an empty word
\* count in the join; a total with metadata has the fields of its metadata.
C19_OneRowPerTotalWithDefaults ==
    /\ (script = Pipeline /\ a_pc = "done") =>
          /\ PipelineRowPerTotal
          /\ \A i \in 1..Len(Written) :
                LET meta == LastMetaOf(Written[i].pageid)
                IN  /\ meta = {} =>
                          /\ Written[i].shortdesc = ""
                          /\ Written[i].word_count = 0
                          /\ Written[i].quality = ""
                    /\ \A m \in meta :
                          /\ Written[i].shortdesc = m.shortdesc
                          /\ Written[i].word_count = m.word_count
                          /\ m.quality \in {{}, {Written[i].quality}}
                          /\ m.quality = {} => Written[i].quality = ""
    /\ (script = Join /\ a_pc = "done") =>
          /\ JoinRowPerTotal
          /\ \A i \in 1..Len(Written) :
                LET meta == LastMetaRowOf(Number(Written[i].pageid))
                IN  /\ meta = {} =>
                          /\ Written[i].shortdesc = ""
                          /\ Written[i].word_count = ""
                          /\ Written[i].quality = ""
                    /\ \A m \in meta :
                          /\ m.shortdesc \subseteq {Written[i].shortdesc}
                          /\ m.word_count \subseteq {Written[i].word_count}
                          /\ m.quality \subseteq {Written[i].quality}

\* C19 witness: the join has written a row with empty metadata fields for a
\* views row without metadata, next to a row with metadata.
C19_Witness ==
    /\ script = Join
    /\ a_pc = "done"
    /\ Len(Written) = 2
    /\ Len(CHOOSE r \in views_file : TRUE) = 3
    /\ Written[1].word_count = "2"
    /\ Written[2].shortdesc = "" /\ Written[2].word_count = ""
    /\ LastMetaRowOf(Number(Written[2].pageid)) = {}

\* the case of the pipeline: a total whose metadata came back under another
\* page id has the defaults, next to a total with metadata
C19_PipelineDefaults ==
    /\ script = Pipeline
    /\ a_pc = "done"
    /\ Len(Written) = 3
    /\ \E i, j \in 1..3 :
          /\ LastMetaOf(Written[i].pageid) = {}
          /\ Written[i].word_count = 0 /\ Written[i].shortdesc = ""
          /\ Written[j].word_count = 2 /\ Written[j].quality = "GA"

ProjectNames == {<<"Zoo">>, <<"apes">>, <<"Apes", " articles">>}

\* the category reads "Category:WikiProject <name> articles"
Tags(category, name) ==
    category.title = {<<"Category:", "WikiProject ">> \o name \o <<" articles">>}

ProjectsIn(cats) ==
    {name \in ProjectNames : \E i \in 1..Len(cats) : Tags(cats[i], name)}

\* C21: extract_wikiprojects returns the project names tagged by the
\* categories, each once, in ascending order of their spelling (by code
\* point, as strings compare); the categories in reverse order, or each given
\* twice, yield the same list.
C21_ProjectsOnceAndSorted ==
    (x_fn = "extract_wikiprojects" /\ x_pc = "return") =>
        /\ {wikiprojects[i] : i \in 1..Len(wikiprojects)} = ProjectsIn(categories)
        /\ Len(wikiprojects) = Cardinality(ProjectsIn(categories))
        /\ \A i \in 1..(Len(wikiprojects) - 1) :
              Before(CodesOf(wikiprojects[i]), CodesOf(wikiprojects[i + 1]))
        /\ extract_wikiprojects(Reversed(categories)) = wikiprojects
        /\ extract_wikiprojects(categories \o categories) = wikiprojects

\* C21 witness: of three categories, two tagging the same project and given
\* after one tagging a project of a later name, two names are returned.
C21_Witness ==
    /\ x_fn = "extract_wikiprojects"
    /\ x_pc = "return"
    /\ Len(categories) = 3
    /\ Tags(categories[1], <<"apes">>)
    /\ Tags(categories[2], <<"Zoo">>)
    /\ Tags(categories[3], <<"Zoo">>)
    /\ wikiprojects = <<<<"Zoo">>, <<"apes">>>>

\* the case of the grade and the project together: the talk categories
\* "Stub-Class articles" and two projects give the grade and both projects
C21_GradeAndProjects ==
    /\ m_result.kind = "return"
    /\ m_result.value.quality = {"Stub"}
    /\ m_result.value.wikiprojects = <<<<"Zoo">>, <<"apes">>>>

ViewsCalls == SelectSeq(fetch_log, LAMBDA f : f.fn = "get_yearly_total_views")
MetaCalls == SelectSeq(fetch_log, LAMBDA f : f.fn = "fetch_article_meta")

\* C22: the fetches are called one at a time in the order of the article
\* refs, a call following only calls that returned: the i-th pageview fetch
\* and the i-th metadata fetch are for the title of the i-th ref, the i-th
\* total has the page id, title and category of the i-th ref and the views
\* returned by the i-th pageview fetch, and the i-th metadata record is what
\* the i-th metadata fetch returned; every ref has one result of each kind
\* when the loops are over.
C22_ResultsInInputOrder ==
    script = Pipeline =>
        /\ fetch_log = ViewsCalls \o MetaCalls
        /\ \A k \in 1..(Len(fetch_log) - 1) : fetch_log[k].returned # {}
        /\ Len(ViewsCalls) <= Len(article_refs)
        /\ Len(MetaCalls) <= Len(article_refs)
        /\ MetaCalls # <<>> => Len(pageview_totals) = Len(article_refs)
        /\ \A i \in 1..Len(ViewsCalls) : ViewsCalls[i].title = article_refs[i].title
        /\ \A i \in 1..Len(MetaCalls) : MetaCalls[i].title = article_refs[i].title
        /\ a_pc # "done" =>
              \A i \in 1..Len(pageview_totals) :
                  /\ pageview_totals[i].pageid = article_refs[i].pageid
                  /\ pageview_totals[i].title = article_refs[i].title
                  /\ pageview_totals[i].category = article_refs[i].category
                  /\ ViewsCalls[i].returned = {pageview_totals[i].yearly_views}
        /\ \A i \in 1..Len(metadata_records) :
              MetaCalls[i].returned = {metadata_records[i]}
        /\ a_pc \in {"join", "done"} =>
              /\ Len(pageview_totals) = Len(article_refs)
              /\ Len(metadata_records) = Len(article_refs)
              /\ Len(fetch_log) = 2 * Len(article_refs)

\* C22 witness: both loops are over for three refs of three titles, the
\* pageview fetches having returned 15, 0, 15 and the metadata fetches three
\* kinds of record.
C22_Witness ==
    /\ script = Pipeline
    /\ a_pc = "join"
    /\ Len(article_refs) = 3
    /\ article_refs[1].title = <<98>>
    /\ article_refs[2].title = <<66>>
    /\ article_refs[3].title = <<97>>
    /\ pageview_totals[1].yearly_views = 15
    /\ pageview_totals[2].yearly_views = 0
    /\ pageview_totals[3].yearly_views = 15
    /\ metadata_records[1].pageid = 9
    /\ metadata_records[2].word_count = 0
    /\ metadata_records[3].quality = {"GA"}

\* the categories the --exclude option names, with or without their prefix
NamedByOption ==
    {c \in Cats : \E i \in 1..Len(exclude_option) :
                     c = <<Prefix>> \o SelectSeq(exclude_option[i],
                                                 LAMBDA tok : tok \notin {" ", Prefix})}

\* C23, as stated: a category the --exclude option names, with or without
\* the prefix, is never enqueued and is visited only as the root.
C23_ExcludedEitherWay ==
    pc \notin {"idle", "main", "start"} =>
        \A c \in NamedByOption \ {root_category} :
            /\ \A i \in 1..Len(enqueue_log) : enqueue_log[i][1] # c
            /\ c \notin visited_categories

\* C23 for the items given with the prefix: the category is in the exclusion
\* set and is never enqueued.
C23_PrefixedSkipped ==
    pc \notin {"idle", "main", "start"} =>
        \A c \in Cats \ {root_category} :
            (\E i \in 1..Len(exclude_option) : exclude_option[i] = c) =>
                /\ c \in exclude
                /\ \A i \in 1..Len(enqueue_log) : enqueue_log[i][1] # c
                /\ c \notin visited_categories

\* a crawl has visited a subcategory of the root that the option names
\* without the prefix
C23_BareNameVisited ==
    /\ pc = "done"
    /\ exclude_option = << <<" ", CatNames[2]>> >>
    /\ exclude = {<<CatNames[2]>>}
    /\ <<Prefix, CatNames[2]>> \in subcatsOf[root_category]
    /\ <<Prefix, CatNames[2]>> \in visited_categories

\* the call is over, all its attempts having got a non-success response
Exhausted ==
    /\ h_pc \in {"return", "raise"}
    /\ Len(GetsOf(h_log)) = MaxAttempts
    /\ LastStatus # 0
    /\ NonSuccess(h_fn, LastStatus)

\* C24, as stated: a call that has exhausted its attempts has raised the HTTP
\* status of its last response, whatever non-success status that is.
C24_FinalStatusRaised ==
    Exhausted =>
        /\ h_result.kind = "raise"
        /\ h_result.exc = "HTTPError"
        /\ h_result.status = LastStatus

\* C24 for the statuses 4xx and 5xx: the HTTP status of the last response is
\* raised, by both functions.
C24_ErrorStatusRaised ==
    (Exhausted /\ LastStatus >= 400) =>
        /\ h_result.kind = "raise"
        /\ h_result.exc = "HTTPError"
        /\ h_result.status = LastStatus

\* mw_get has exhausted its attempts on a last status 204 and raised an
\* error that carries no status
C24_NoStatusRaised ==
    /\ Exhausted
    /\ h_fn = "mw_get"
    /\ LastStatus = 204
    /\ h_result.exc = "RuntimeError(Unreachable)"

\* C25, as stated: in a call that is over every sleep is followed by a
\* request, and a call that has exhausted its attempts has slept once between
\* two attempts, one time less than it has sent requests.
C25_SleepThenRetry ==
    h_pc \in {"return", "raise"} =>
        /\ \A k \in 1..Len(h_log) :
              h_log[k][1] = "sleep" => (k < Len(h_log) /\ h_log[k + 1][1] = "get")
        /\ Exhausted => Len(SleepsOf(h_log)) = MaxAttempts - 1

\* C25 in the calls that do not exhaust their attempts: every sleep is
\* followed by a request.
C25_SleepThenRetryUnlessExhausted ==
    (h_pc \in {"return", "raise"} /\ ~Exhausted) =>
        \A k \in 1..Len(h_log) :
            h_log[k][1] = "sleep" => (k < Len(h_log) /\ h_log[k + 1][1] = "get")

\* a call has exhausted its attempts and its last event is a sleep of the
\* capped duration, after its last request
C25_SleepBeforeGivingUp ==
    /\ Exhausted
    /\ h_log[Len(h_log)] = <<"sleep", BackoffCap>>
    /\ Len(SleepsOf(h_log)) = MaxAttempts

\* C27: a run that finds the combined output path existing exits with status 1
\* in its first step, having sent no request, read no input, opened no file
\* for writing and changed no file, and does nothing after that.
C27_ExistingOutputStopsAtOnce ==
    /\ [](a_exit = "exit(1)" =>
            /\ a_pc = "exited"
            /\ fetch_log = <<>> /\ read_log = <<>> /\ opened = <<>>
            /\ pageview_totals = <<>> /\ metadata_records = <<>>
            /\ combined_file # {})
    /\ [][(a_pc = "start" /\ combined_file # {}) =>
            /\ a_exit' = "exit(1)"
            /\ UNCHANGED <<combined_file, views_file, meta_file, opened,
                           fetch_log, read_log>>]_vars
    /\ [][a_exit = "exit(1)" => UNCHANGED vars]_vars

\* the pipeline has stopped on an existing output path
C27_Witness ==
    /\ script = Pipeline
    /\ a_exit = "exit(1)"
    /\ combined_file = {<<>>}
    /\ article_refs # <<>>

\* the join has stopped on an existing output path, its inputs holding rows
C27_JoinStopped ==
    /\ script = Join
    /\ a_exit = "exit(1)"
    /\ combined_file = {<<>>}
    /\ views_file # {<<>>}

\* the table rows written under the heading of a bucket
ShownIn(bucket) ==
    LET starts == {k \in 1..Len(lines) : lines[k] = <<"===", bucket>>}
    IN  IF starts = {} THEN <<>>
        ELSE LET k == CHOOSE i \in starts : TRUE
                 e == CHOOSE j \in (k + 1)..Len(lines) :
                          /\ lines[j][1] = "|}"
                          /\ \A i \in (k + 1)..(j - 1) : lines[i][1] # "|}"
             IN  SubSeq(lines, k + 2, e - 1)

\* the rows of the input that belong to a bucket and have a title
TitledIn(bucket) ==
    SelectSeq(BucketRows(cv_rows, bucket),
              LAMBDA row : StripText(row.title) # <<>>)

IsShown(row, shown) ==
    \E i \in 1..Len(shown) : shown[i][4] = StripText(row.title)

\* the buckets of the written output show their rows within the limits: at
\* most pre_limit rows before 1980, at most decade_limit rows in a decade,
\* these being rows of the most views, and every row without a year
LimitsHold(pre_limit, decade_limit) ==
    cv_pc = "done" =>
        \A b \in 1..Len(bucket_order) :
            LET bucket == bucket_order[b]
                shown == ShownIn(bucket)
                titled == TitledIn(bucket)
            IN  /\ bucket = "Pre-1980" => Len(shown) <= pre_limit
                /\ bucket \notin {"Pre-1980", "Unparseable"} =>
                       Len(shown) <= decade_limit
                /\ bucket = "Unparseable" => Len(shown) = Len(titled)
                /\ \A i \in 1..Len(titled) :
                       IsShown(titled[i], shown)
                       \/ \A j \in 1..Len(shown) :
                              numeric_views(shown[j][3])
                                  >= numeric_views(titled[i].yearly_views)

\* C26, as stated: in the written output the bucket Pre-1980 shows at most 10
\* rows, a decade bucket at most 150, in both the rows of the most views, and
\* the bucket Unparseable shows all its rows.
C26_TopTenBefore1980 == LimitsHold(10, 150)

\* C26 with the limit of the code: the bucket Pre-1980 shows at most 20 rows.
C26_TopTwentyBefore1980 == LimitsHold(20, 150)

\* the output is written for a file of more than 20 rows before 1980, more
\* than 150 of a decade and more than 150 without a year: 20, 150 and all of
\* them are shown
C26_LimitsReached ==
    /\ cv_pc = "done"
    /\ Len(TitledIn("Pre-1980")) > 20
    /\ Len(ShownIn("Pre-1980")) = 20
    /\ Len(TitledIn("2020-2029")) > 150
    /\ Len(ShownIn("2020-2029")) = 150
    /\ Len(ShownIn("Unparseable")) > 150

====
